---- MODULE Spec2Model ----
(***************************************************************************)
(* A model of the extraction-review template: the in-memory agent-data     *)
(* store of the fake LlamaCloud server (testing_utils/agent_data.py), the  *)
(* deterministic value generator (testing_utils/_deterministic.py), the    *)
(* stateless extraction run (testing_utils/extract.py) and the             *)
(* ProcessFileWorkflow (process_file.py).                                  *)
(*                                                                         *)
(* Python's None is the empty tuple <<>> and a present optional value x is *)
(* <<x>>, so that both sides of a comparison are always tuples.  A JSON    *)
(* object (dict) is a function from its keys to its values.                *)
(***************************************************************************)
EXTENDS Integers, Sequences, FiniteSets, TLC

VARIABLES
    stored,     \* FakeAgentDataNamespace.stored: list[StoredAgentData]
    call,       \* the last agent-data request and the response it got
    runs,       \* the runs of ProcessFileWorkflow: context state, events, result
    disk,       \* the files download_file wrote to the temporary directory
    now,        \* the clock utcnow() reads
    extract_runs, \* FakeExtractNamespace._runs, in the order of their creation
    gen,        \* the last call of _generate_value and what it returned
    files, \* FakeFilesNamespace: _files, _pending and the ids it has made
    file_call, \* the last request to the files namespace and its response
    server, \* FakeLlamaCloudServer: its flags, its router and the namespaces asked for
    union, \* the last call of create_union_schema and what it returned
    parse, \* FakeParseNamespace: _jobs and the ids it has made
    parse_call, \* the last request to the parse namespace and its response
    pipelines, \* FakePipelinesNamespace: _pipelines, _documents, _files and the ids made
    pipeline_call, \* the last request to the pipelines namespace and its response
    extract, \* FakeExtractNamespace: agents, name index, jobs, runs and stubs
    extract_call, \* the last call of the extract namespace or of RequestContext.matches, and its result
    SCHEMA, \* schema.SCHEMA: None, or the model class built, named by the number of its build
    _schema_lock, \* schema._schema_lock: the caller that holds it, if any
    callers, \* where each call of get_extraction_schema stands
    built \* the builds, calls and failures counted and the classes returned

\* ------------------------------------------------------------ bounds

\* The longest list of stored agent-data items.
MaxStored == 2

\* The number of workflow runs.
MaxRuns == 2

\* The number of stateless extraction runs.
MaxExtractRuns == 2

\* The latest time the clock shows.
MaxClock == 2

\* ------------------------------------------------------- input sets

None == <<>>
Some(x) == <<x>>

\* The keys and the values of the JSON objects kept as agent data.
Keys == {"file_hash", "total"}
Values == {1, 2}

\* The dicts requests carry as data: one lacks a key, two differ in one value.
DataSet ==
    {[total |-> 1], [file_hash |-> 1, total |-> 2], [file_hash |-> 2, total |-> 2]}

\* The data an update request carries, when it carries any.
UpdateSet == {[file_hash |-> 2, total |-> 2]}

EXTRACTED_DATA_COLLECTION == "extraction-review"

\* The (collection, deployment name) pairs requests name: the workflow's own,
\* one of another collection and one of another deployment.
Scopes ==
    {[collection |-> EXTRACTED_DATA_COLLECTION, deployment_name |-> "_public"],
     [collection |-> "default", deployment_name |-> "_public"],
     [collection |-> EXTRACTED_DATA_COLLECTION, deployment_name |-> "other"]}

\* ---------------------------------------------------- hash_schema

\* json.dumps(..., sort_keys=True): the keys in sorted order.
SortedKeys(d) ==
    LET ks == DOMAIN d
    IN  (IF "file_hash" \in ks THEN <<"file_hash">> ELSE <<>>)
        \o (IF "total" \in ks THEN <<"total">> ELSE <<>>)

KeyCode(k) == IF k = "file_hash" THEN 3 ELSE 5

\* The digest of the canonical serialisation, over 7 hex digits (28 bits).
IdSpace == 268435456

RECURSIVE DigestFrom(_, _, _)
DigestFrom(d, ks, acc) ==
    IF ks = <<>> THEN acc
    ELSE DigestFrom(d, Tail(ks),
                    (acc * 31 + KeyCode(Head(ks)) * 7 + d[Head(ks)]) % IdSpace)

hash_schema(d) == DigestFrom(d, SortedKeys(d), 17)

\* StoredAgentData.from_request_data
from_request_data(payload) ==
    [data |-> payload.data,
     collection |-> payload.collection,
     deployment_name |-> payload.deployment_name,
     id |-> hash_schema(payload.data)]


\* ----------------------------------------------------- apply_filter

OpNames == {"gt", "gte", "lt", "lte", "eq", "ne", "in", "nin"}

\* A clause of a condition dict: {op: operand}.  The operand of in and nin is
\* a list (values), the operand of every other operator a scalar (value).
Clause(op, v, vs) == [op |-> op, value |-> v, values |-> vs]

\* A condition: a dict of clauses, or a bare value compared with !=.
DictCond(cls) == [isdict |-> TRUE, value |-> 0, clauses |-> cls]
BareCond(v) == [isdict |-> FALSE, value |-> v, clauses |-> {}]

\* The table ops of apply_filter.
ops(op, a, cl) ==
    CASE op = "gt" -> a > cl.value
      [] op = "gte" -> a >= cl.value
      [] op = "lt" -> a < cl.value
      [] op = "lte" -> a <= cl.value
      [] op = "eq" -> a = cl.value
      [] op = "ne" -> a # cl.value
      [] op = "in" -> a \in cl.values
      [] op = "nin" -> a \notin cl.values

\* apply_filter letting an operator outside the table pass.
apply_filter_unknown_op_passes(data, filters) ==
    \A key \in DOMAIN filters :
        /\ key \in DOMAIN data
        /\ IF filters[key].isdict
           THEN \A cl \in filters[key].clauses :
                    cl.op \in OpNames => ops(cl.op, data[key], cl)
           ELSE data[key] = filters[key].value

apply_filter(data, filters) ==
    \A key \in DOMAIN filters :
        /\ key \in DOMAIN data
        /\ IF filters[key].isdict
           THEN \A cl \in filters[key].clauses :
                    /\ cl.op \in OpNames
                    /\ ops(cl.op, data[key], cl)
           ELSE data[key] = filters[key].value

\* The filters requests carry.
EmptyFilter == [k \in {} |-> DictCond({})]
OneKey(k, c) == [x \in {k} |-> c]

FilterSet ==
    {OneKey("total", DictCond({Clause("gt", 1, {})})),
     OneKey("total", DictCond({Clause("gte", 2, {})})),
     OneKey("total", DictCond({Clause("lt", 2, {})})),
     OneKey("total", DictCond({Clause("lte", 1, {})})),
     OneKey("total", DictCond({Clause("eq", 1, {})})),
     OneKey("total", DictCond({Clause("ne", 1, {})})),
     OneKey("total", DictCond({Clause("in", 0, {1})})),
     OneKey("total", DictCond({Clause("nin", 0, {1})})),
     OneKey("total", DictCond({Clause("regex", 1, {})})),
     OneKey("total", DictCond({Clause("gte", 1, {}), Clause("lt", 2, {})})),
     OneKey("total", DictCond({Clause("gte", 1, {}), Clause("regex", 1, {})})),
     OneKey("total", DictCond({})),
     OneKey("file_hash", DictCond({Clause("eq", 1, {})})),
     OneKey("file_hash", BareCond(2)),
     [k \in Keys |-> DictCond({Clause("eq", 2, {})})],
     EmptyFilter}

\* The filters of the delete and aggregate requests.
FewFilters ==
    {OneKey("total", DictCond({Clause("gte", 2, {})})),
     OneKey("file_hash", DictCond({Clause("eq", 1, {})})),
     EmptyFilter}

\* ------------------------------------------- FakeAgentDataNamespace

\* A handler's outcome: the new list, the status code and the JSON body.
Outcome(st, code, body) == [stored |-> st, status_code |-> code, body |-> body]

\* The JSON of one item in a response (the timestamps left out).
ItemBody(item) ==
    [data |-> item.data, collection |-> item.collection,
     deployment_name |-> item.deployment_name, id |-> item.id]

InScope(item, payload) ==
    /\ item.collection = payload.collection
    /\ item.deployment_name = payload.deployment_name

RECURSIVE Filter(_, _)
\* [x for x in seq if Keep(x)], Keep given as the set of kept positions.
Filter(seq, keep) ==
    IF seq = <<>> THEN <<>>
    ELSE LET n == Len(seq)
             front == Filter(SubSeq(seq, 1, n - 1), keep)
         IN  IF n \in keep THEN Append(front, seq[n]) ELSE front

_create_data(st, payload) ==
    LET data == from_request_data(payload)
    IN  Outcome(Append(st, data), 200, ItemBody(data))

_delete_data_by_query(st, payload) ==
    IF payload.filter # None
    THEN LET filters == payload.filter[1]
             to_keep == {i \in 1..Len(st) :
                            /\ InScope(st[i], payload)
                            /\ ~apply_filter(st[i].data, filters)}
             deleted == {i \in 1..Len(st) :
                            /\ InScope(st[i], payload)
                            /\ apply_filter(st[i].data, filters)}
         IN  Outcome(Filter(st, to_keep), 200,
                     [deleted_count |-> Cardinality(deleted)])
    ELSE Outcome(st, 200, [deleted_count |-> 0])

NoData(item_id) == [detail |-> "No data with ID", id |-> item_id]

\* _delete_data_by_id removing the first item of the id only.
_delete_data_by_id_first_only(st, item_id) ==
    IF ~\E i \in 1..Len(st) : st[i].id = item_id
    THEN Outcome(st, 404, NoData(item_id))
    ELSE LET first == CHOOSE i \in 1..Len(st) :
                          /\ st[i].id = item_id
                          /\ \A j \in 1..(i - 1) : st[j].id # item_id
         IN  Outcome(Filter(st, (1..Len(st)) \ {first}), 200,
                     [detail |-> "", id |-> item_id])

_delete_data_by_id(st, item_id) ==
    IF ~\E i \in 1..Len(st) : st[i].id = item_id
    THEN Outcome(st, 404, NoData(item_id))
    ELSE Outcome(Filter(st, {i \in 1..Len(st) : st[i].id # item_id}), 200,
                 [detail |-> "", id |-> item_id])

_get_data_by_id(st, item_id) ==
    LET data == Filter(st, {i \in 1..Len(st) : st[i].id = item_id})
    IN  IF data # <<>>
        THEN Outcome(st, 200, ItemBody(data[1]))
        ELSE Outcome(st, 404, NoData(item_id))

_search_data(st, payload) ==
    LET found ==
            IF payload.filter # None
            THEN Filter(st, {i \in 1..Len(st) :
                                /\ InScope(st[i], payload)
                                /\ apply_filter(st[i].data, payload.filter[1])})
            ELSE Filter(st, {i \in 1..Len(st) : InScope(st[i], payload)})
    IN  Outcome(st, 200,
                [items |-> [i \in 1..Len(found) |-> ItemBody(found[i])],
                 total_size |-> Len(found)])

\* _update_data giving the updated item the id of its new data.
_update_data_new_id(st, item_id, payload) ==
    LET hit == {i \in 1..Len(st) : st[i].id = item_id}
        new == [i \in 1..Len(st) |->
                   IF i \in hit /\ payload.data # None
                   THEN [st[i] EXCEPT !.data = payload.data[1],
                                      !.id = hash_schema(payload.data[1])]
                   ELSE st[i]]
    IN  IF hit # {}
        THEN LET last == CHOOSE i \in hit : \A j \in hit : j <= i
             IN  Outcome(new, 200, ItemBody(new[last]))
        ELSE Outcome(st, 404, [detail |-> "Record not found", id |-> item_id])

\* payload.data is None when the request carries no "data".
_update_data(st, item_id, payload) ==
    LET hit == {i \in 1..Len(st) : st[i].id = item_id}
        new == [i \in 1..Len(st) |->
                   IF i \in hit
                   THEN [st[i] EXCEPT !.data =
                            IF payload.data # None THEN payload.data[1] ELSE @]
                   ELSE st[i]]
    IN  IF hit # {}
        THEN LET last == CHOOSE i \in hit : \A j \in hit : j <= i
             IN  Outcome(new, 200, ItemBody(new[last]))
        ELSE Outcome(st, 404, [detail |-> "Record not found", id |-> item_id])

vars == <<stored, call, runs, disk, now, extract_runs, gen, files, file_call, server, union, parse, parse_call, pipelines, pipeline_call, extract, extract_call, SCHEMA, _schema_lock, callers, built>>

workflow_vars == <<runs, disk>>
extract_vars == <<now, extract_runs>>
\* The variables of the other parts of the fake server and of the template.
other_vars == <<gen, files, file_call, server, union, parse, parse_call, pipelines, pipeline_call, extract, extract_call, SCHEMA, _schema_lock, callers, built>>
first_vars == <<stored, call, runs, disk, now, extract_runs>>
except_gen == <<first_vars, files, file_call, server, union, parse, parse_call, pipelines, pipeline_call, extract, extract_call, SCHEMA, _schema_lock, callers, built>>
except_files == <<first_vars, gen, server, union, parse, parse_call, pipelines, pipeline_call, extract, extract_call, SCHEMA, _schema_lock, callers, built>>
except_server == <<first_vars, gen, files, file_call, union, parse, parse_call, pipelines, pipeline_call, extract, extract_call, SCHEMA, _schema_lock, callers, built>>
except_union == <<first_vars, gen, files, file_call, server, parse, parse_call, pipelines, pipeline_call, extract, extract_call, SCHEMA, _schema_lock, callers, built>>
except_parse == <<first_vars, gen, files, file_call, server, union, pipelines, pipeline_call, extract, extract_call, SCHEMA, _schema_lock, callers, built>>
except_pipelines == <<first_vars, gen, files, file_call, server, union, parse, parse_call, extract, extract_call, SCHEMA, _schema_lock, callers, built>>
except_extract == <<first_vars, gen, files, file_call, server, union, parse, parse_call, pipelines, pipeline_call, SCHEMA, _schema_lock, callers, built>>
except_schema == <<first_vars, gen, files, file_call, server, union, parse, parse_call, pipelines, pipeline_call, extract, extract_call>>

\* One step of the grouping loop of _aggregate_data: data.data put in its
\* group of key, a new group appended when its value has none yet.
AddToGroup(groups, key, data) ==
    IF key \notin DOMAIN data THEN groups
    ELSE LET g == groups[key]
             at == {j \in 1..Len(g) : g[j].value = data[key]}
         IN  IF at # {}
             THEN LET j == CHOOSE x \in at : TRUE
                  IN  [groups EXCEPT ![key] =
                          [g EXCEPT ![j].items = Append(@, data)]]
             ELSE [groups EXCEPT ![key] =
                      Append(g, [value |-> data[key], items |-> <<data>>])]

RECURSIVE GroupKeys(_, _, _)
\* for key in group_bys: ...
GroupKeys(groups, group_bys, data) ==
    IF group_bys = <<>> THEN groups
    ELSE GroupKeys(AddToGroup(groups, Head(group_bys), data),
                   Tail(group_bys), data)

RECURSIVE GroupItems(_, _, _)
\* for data in self.stored (the items that passed the scope and the filter)
GroupItems(groups, group_bys, items) ==
    IF items = <<>> THEN groups
    ELSE GroupItems(GroupKeys(groups, group_bys, Head(items).data),
                    group_bys, Tail(items))

RECURSIVE DictOrder(_, _)
\* The keys of {key: {} for key in group_bys}, in the order a dict keeps them.
DictOrder(group_bys, seen) ==
    IF group_bys = <<>> THEN <<>>
    ELSE IF Head(group_bys) \in seen THEN DictOrder(Tail(group_bys), seen)
    ELSE <<Head(group_bys)>>
         \o DictOrder(Tail(group_bys), seen \cup {Head(group_bys)})

RECURSIVE GroupRows(_, _, _)
\* for k in groups: for v in groups[k]: response["items"].append(...)
GroupRows(groups, ks, add_count) ==
    IF ks = <<>> THEN <<>>
    ELSE LET k == Head(ks)
             g == groups[k]
         IN  [j \in 1..Len(g) |->
                 [first_item |-> g[j].items[1],
                  count |-> IF add_count THEN Some(Len(g[j].items)) ELSE None,
                  group_key |-> [key |-> k, value |-> g[j].value]]]
             \o GroupRows(groups, Tail(ks), add_count)

_aggregate_data(st, payload) ==
    LET group_bys == payload.group_by
        empty == [k \in {group_bys[i] : i \in 1..Len(group_bys)} |-> <<>>]
        passing ==
            IF payload.filter # None
            THEN Filter(st, {i \in 1..Len(st) :
                                /\ InScope(st[i], payload)
                                /\ apply_filter(st[i].data, payload.filter[1])})
            ELSE Filter(st, {i \in 1..Len(st) : InScope(st[i], payload)})
        groups == GroupItems(empty, group_bys, passing)
        rows == GroupRows(groups, DictOrder(group_bys, {}), payload.count)
    IN  Outcome(st, 200, [items |-> rows, total_size |-> Len(rows)])

\* ------------------------------------------------- the requests made

\* Every id an item created from DataSet gets, and one that none gets.
UnknownId == 0
ItemIds == {hash_schema(d) : d \in DataSet} \cup {UnknownId}

GroupBySet ==
    {<<>>, <<"total">>, <<"file_hash">>, <<"total", "file_hash">>,
     <<"total", "total">>}

Options(S) == {None} \cup {Some(x) : x \in S}

Called(op, req, out) ==
    [op |-> op, req |-> req, status_code |-> out.status_code, body |-> out.body]

CreateData ==
    /\ Len(stored) < MaxStored
    /\ \E d \in DataSet, s \in Scopes :
          LET payload == [data |-> d, collection |-> s.collection,
                          deployment_name |-> s.deployment_name]
              out == _create_data(stored, payload)
          IN  /\ stored' = out.stored
              /\ call' = Called("create_item", payload, out)
              /\ UNCHANGED <<workflow_vars, extract_vars, other_vars>>

DeleteDataByQuery ==
    \E s \in Scopes, f \in Options(FewFilters) :
        LET payload == [collection |-> s.collection,
                        deployment_name |-> s.deployment_name, filter |-> f]
            out == _delete_data_by_query(stored, payload)
        IN  /\ stored' = out.stored
            /\ call' = Called("delete", payload, out)
            /\ UNCHANGED <<workflow_vars, extract_vars, other_vars>>

DeleteDataById ==
    \E item_id \in ItemIds :
        LET out == _delete_data_by_id(stored, item_id)
        IN  /\ stored' = out.stored
            /\ call' = Called("delete_item", [item_id |-> item_id], out)
            /\ UNCHANGED <<workflow_vars, extract_vars, other_vars>>

GetDataById ==
    \E item_id \in ItemIds :
        LET out == _get_data_by_id(stored, item_id)
        IN  /\ stored' = out.stored
            /\ call' = Called("get_item", [item_id |-> item_id], out)
            /\ UNCHANGED <<workflow_vars, extract_vars, other_vars>>

SearchData ==
    \E s \in Scopes, f \in Options(FilterSet) :
        LET payload == [collection |-> s.collection,
                        deployment_name |-> s.deployment_name, filter |-> f]
            out == _search_data(stored, payload)
        IN  /\ stored' = out.stored
            /\ call' = Called("search", payload, out)
            /\ UNCHANGED <<workflow_vars, extract_vars, other_vars>>

UpdateData ==
    \E item_id \in ItemIds, d \in Options(UpdateSet) :
        LET payload == [data |-> d]
            out == _update_data(stored, item_id, payload)
        IN  /\ stored' = out.stored
            /\ call' = Called("update_item", [item_id |-> item_id, data |-> d], out)
            /\ UNCHANGED <<workflow_vars, extract_vars, other_vars>>

AggregateData ==
    \E s \in Scopes, f \in Options(FewFilters), g \in GroupBySet, n \in BOOLEAN :
        LET payload == [collection |-> s.collection,
                        deployment_name |-> s.deployment_name, filter |-> f,
                        group_by |-> g, count |-> n]
            out == _aggregate_data(stored, payload)
        IN  /\ stored' = out.stored
            /\ call' = Called("aggregate", payload, out)
            /\ UNCHANGED <<workflow_vars, extract_vars, other_vars>>

\* ---------------------------------------------- ProcessFileWorkflow

RunIds == 1..MaxRuns

\* The files of the cloud store: two of them have the same bytes.
CloudFiles ==
    [f1 |-> [name |-> "a.pdf", content |-> 1],
     f2 |-> [name |-> "b.pdf", content |-> 1],
     f3 |-> [name |-> "c.pdf", content |-> 2]]

\* The file ids a FileEvent may carry: the last one is not in the cloud store.
FileIds == DOMAIN CloudFiles \cup {"missing"}

FileNames == {CloudFiles[f].name : f \in DOMAIN CloudFiles}
Contents == {CloudFiles[f].content : f \in DOMAIN CloudFiles}

\* hashlib.sha256(file_content).hexdigest()
sha256(content) == (content * 40503 + 7919) % IdSpace

\* agent_name or "_public", with LLAMA_DEPLOY_DEPLOYMENT_NAME unset
WorkflowScope ==
    [collection |-> EXTRACTED_DATA_COLLECTION, deployment_name |-> "_public"]

\* The order of the steps, each with the event it takes and the event it
\* returns (the annotations of the @step methods).
StepOrder ==
    <<"run_file", "download_file", "process_file", "wait_for_extract_job",
      "get_extraction_job_result", "record_extracted_data">>

\* A step taking the event of the step before it as well.
AcceptsEarlierEventToo(step) ==
    CASE step = "run_file" -> {"FileEvent"}
      [] step = "download_file" -> {"DownloadFileEvent"}
      [] step = "process_file" -> {"FileDownloadedEvent"}
      [] step = "wait_for_extract_job" ->
            {"FileDownloadedEvent", "ExtractJobStartedEvent"}
      [] step = "get_extraction_job_result" -> {"ExtractJobCompletedEvent"}
      [] step = "record_extracted_data" ->
            {"ExtractedEvent", "ExtractedInvalidEvent"}

Accepts(step) ==
    CASE step = "run_file" -> {"FileEvent"}
      [] step = "download_file" -> {"DownloadFileEvent"}
      [] step = "process_file" -> {"FileDownloadedEvent"}
      [] step = "wait_for_extract_job" -> {"ExtractJobStartedEvent"}
      [] step = "get_extraction_job_result" -> {"ExtractJobCompletedEvent"}
      [] step = "record_extracted_data" ->
            {"ExtractedEvent", "ExtractedInvalidEvent"}

Event(type, payload) == [type |-> type, payload |-> payload]

\* ExtractionState()
NewState ==
    [file_id |-> None, file_path |-> None, filename |-> None,
     file_hash |-> None, extract_job_id |-> None]

\* A run that has not started.  invalid tells whether the run has caught an
\* InvalidExtractionData.
IdleRun ==
    [status |-> "idle", pending |-> None, state |-> NewState, log |-> <<>>,
     stream |-> <<>>, error |-> None, result |-> None, at |-> "",
     deleted |-> None, item |-> None, invalid |-> FALSE]

Status(level, step) == [level |-> level, step |-> step]

\* The step of a run that may run: the run is live and holds an event the
\* step accepts.
Ready(run, step) ==
    /\ run.status = "running"
    /\ run.pending # None
    /\ run.pending[1].type \in Accepts(step)

\* A step returned an event: it is handed to the step that accepts it.
Emit(run, step, event) ==
    [run EXCEPT !.pending = Some(event), !.log = Append(@, step)]

\* A step raised outside any try block: the run ends with the exception.
Raise(run, step, exc) ==
    [run EXCEPT !.status = "failed", !.pending = None,
                !.log = Append(@, step),
                !.error = Some([exc |-> exc, step |-> step])]

\* An except block that forgets to report.
CatchAndRaiseUnreported(run, step, exc) == Raise(run, step, exc)

\* except Exception as e: logger.error; ctx.write_event_to_stream(Status(
\* level="error", ...)); raise e
CatchReportAndRaise(run, step, exc) ==
    Raise([run EXCEPT !.stream = Append(@, Status("error", step))], step, exc)

\* workflow.run(start_event=FileEvent(file_id=...)), one run after the other
StartRun(r) ==
    /\ runs[r].status = "idle"
    /\ \A q \in RunIds : runs[q].status # "running"
    /\ \A q \in RunIds : q < r => runs[q].status # "idle"
    /\ \E file_id \in FileIds :
          runs' = [runs EXCEPT ![r] =
                      [IdleRun EXCEPT !.status = "running",
                                      !.pending = Some(Event("FileEvent", <<file_id>>))]]
    /\ UNCHANGED <<stored, call, disk>>
    /\ UNCHANGED <<extract_vars, other_vars>>

run_file(r) ==
    /\ Ready(runs[r], "run_file")
    /\ LET event == runs[r].pending[1]
           run == [runs[r] EXCEPT !.state.file_id = Some(event.payload[1])]
       IN  runs' = [runs EXCEPT ![r] =
                       Emit(run, "run_file", Event("DownloadFileEvent", <<>>))]
    /\ UNCHANGED <<stored, call, disk>>
    /\ UNCHANGED <<extract_vars, other_vars>>

\* The download either succeeds or fails on the network (transfer_ok).
download_file(r) ==
    /\ Ready(runs[r], "download_file")
    /\ \E transfer_ok \in BOOLEAN :
          LET run == runs[r]
              state == run.state
          IN  IF state.file_id = None
              THEN /\ runs' = [runs EXCEPT ![r] =
                                  Raise(run, "download_file", "ValueError")]
                   /\ disk' = disk
              ELSE IF state.file_id[1] \notin DOMAIN CloudFiles
              THEN \* files.items[0] of an empty page
                   /\ runs' = [runs EXCEPT ![r] =
                          CatchReportAndRaise(run, "download_file", "IndexError")]
                   /\ disk' = disk
              ELSE IF ~transfer_ok
              THEN /\ runs' = [runs EXCEPT ![r] =
                          CatchReportAndRaise(run, "download_file", "HTTPError")]
                   /\ disk' = disk
              ELSE LET file == CloudFiles[state.file_id[1]]
                   IN  /\ disk' = [disk EXCEPT ![file.name] = Some(file.content)]
                       /\ runs' = [runs EXCEPT ![r] =
                              Emit([run EXCEPT !.state.file_path = Some(file.name),
                                               !.state.filename = Some(file.name)],
                                   "download_file",
                                   Event("FileDownloadedEvent", <<>>))]
    /\ UNCHANGED <<stored, call>>
    /\ UNCHANGED <<extract_vars, other_vars>>

\* extraction.run either returns a job or fails (api_ok).
process_file(r) ==
    /\ Ready(runs[r], "process_file")
    /\ \E api_ok \in BOOLEAN :
          LET run == runs[r]
              state == run.state
          IN  IF state.file_path = None \/ state.filename = None
              THEN runs' = [runs EXCEPT ![r] =
                               Raise(run, "process_file", "ValueError")]
              ELSE LET file_content == disk[state.file_path[1]][1]
                       told == [run EXCEPT !.stream =
                                   Append(@, Status("info", "process_file"))]
                   IN  IF ~api_ok
                       THEN runs' = [runs EXCEPT ![r] =
                                        Raise(told, "process_file", "APIError")]
                       ELSE runs' = [runs EXCEPT ![r] =
                                Emit([told EXCEPT
                                         !.state.file_hash = Some(sha256(file_content)),
                                         !.state.extract_job_id = Some(r)],
                                     "process_file",
                                     Event("ExtractJobStartedEvent", <<>>))]
    /\ UNCHANGED <<stored, call, disk>>
    /\ UNCHANGED <<extract_vars, other_vars>>

\* wait_for_completion either returns or fails (job_ok).
wait_for_extract_job(r) ==
    /\ Ready(runs[r], "wait_for_extract_job")
    /\ \E job_ok \in BOOLEAN :
          LET run == runs[r]
          IN  IF run.state.extract_job_id = None
              THEN runs' = [runs EXCEPT ![r] =
                               Raise(run, "wait_for_extract_job", "ValueError")]
              ELSE IF ~job_ok
              THEN runs' = [runs EXCEPT ![r] =
                               Raise(run, "wait_for_extract_job", "APIError")]
              ELSE runs' = [runs EXCEPT ![r] =
                               Emit(run, "wait_for_extract_job",
                                    Event("ExtractJobCompletedEvent", <<>>))]
    /\ UNCHANGED <<stored, call, disk>>
    /\ UNCHANGED <<extract_vars, other_vars>>

\* What building the extracted data may do.
Outcomes == {"api_error", "valid", "invalid", "error"}

\* ExtractedData(...).model_dump(): the file hash and the extracted value.
ExtractedData(file_hash, total) ==
    IF file_hash = None THEN [total |-> total]
    ELSE [file_hash |-> file_hash[1], total |-> total]

\* A validation failure handled as the other exceptions of the try block
\* are.
CatchInvalidAndRaise(run, step, invalid_item) ==
    CatchReportAndRaise(run, step, "InvalidExtractionData")

\* except InvalidExtractionData as e: logger.error; return
\* ExtractedInvalidEvent(data=e.invalid_item)
CatchInvalid(run, step, invalid_item) ==
    Emit([run EXCEPT !.invalid = TRUE], step,
         Event("ExtractedInvalidEvent", <<invalid_item>>))

get_extraction_job_result(r) ==
    /\ Ready(runs[r], "get_extraction_job_result")
    /\ \E outcome \in Outcomes, total \in Values :
          LET run == runs[r]
              step == "get_extraction_job_result"
              data == ExtractedData(run.state.file_hash, total)
          IN  IF run.state.extract_job_id = None
              THEN runs' = [runs EXCEPT ![r] = Raise(run, step, "ValueError")]
              ELSE CASE outcome = "api_error" ->
                          \* get_result or runs.get fails, before the try
                          runs' = [runs EXCEPT ![r] = Raise(run, step, "APIError")]
                     [] outcome = "valid" ->
                          runs' = [runs EXCEPT ![r] =
                              Emit(run, step, Event("ExtractedEvent", <<data>>))]
                     [] outcome = "invalid" ->
                          runs' = [runs EXCEPT ![r] = CatchInvalid(run, step, data)]
                     [] outcome = "error" ->
                          runs' = [runs EXCEPT ![r] =
                              CatchReportAndRaise(run, step, "Exception")]
    /\ UNCHANGED <<stored, call, disk>>
    /\ UNCHANGED <<extract_vars, other_vars>>

\* A filter with an operator the store does not know.
PastDataFilterWrongOp(file_hash) ==
    OneKey("file_hash", DictCond({Clause("equals", file_hash, {})}))

\* filter={"file_hash": {"eq": event.data.file_hash}}
PastDataFilter(file_hash) ==
    OneKey("file_hash", DictCond({Clause("eq", file_hash, {})}))

\* record_extracted_data up to its first request: delete_by_query, made
\* when the data has a file hash.
record_extracted_data_delete(r) ==
    /\ Ready(runs[r], "record_extracted_data")
    /\ runs[r].at = ""
    /\ LET data == runs[r].pending[1].payload[1]
           payload == [collection |-> WorkflowScope.collection,
                       deployment_name |-> WorkflowScope.deployment_name,
                       filter |-> IF "file_hash" \in DOMAIN data
                                  THEN Some(PastDataFilter(data.file_hash))
                                  ELSE None]
           out == _delete_data_by_query(stored, payload)
       IN  IF "file_hash" \in DOMAIN data
           THEN /\ stored' = out.stored
                /\ call' = Called("delete", payload, out)
                /\ runs' = [runs EXCEPT ![r].at = "create",
                                        ![r].log = Append(@, "record_extracted_data"),
                                        ![r].deleted = Some(out.body.deleted_count)]
           ELSE /\ runs' = [runs EXCEPT ![r].at = "create",
                                        ![r].log = Append(@, "record_extracted_data")]
                /\ UNCHANGED <<stored, call>>
    /\ UNCHANGED disk
    /\ UNCHANGED <<extract_vars, other_vars>>

\* The rest of record_extracted_data: the item is created and its id is
\* the result of the StopEvent.
record_extracted_data_create(r) ==
    /\ runs[r].status = "running"
    /\ runs[r].at = "create"
    /\ LET data == runs[r].pending[1].payload[1]
           payload == [data |-> data,
                       collection |-> WorkflowScope.collection,
                       deployment_name |-> WorkflowScope.deployment_name]
           out == _create_data(stored, payload)
       IN  /\ stored' = out.stored
           /\ call' = Called("create_item", payload, out)
           /\ runs' = [runs EXCEPT ![r] =
                  [@ EXCEPT !.at = "", !.pending = None, !.status = "done",
                            !.item = Some(out.body),
                            !.stream = Append(@, Status("info", "record_extracted_data")),
                            !.result = Some(out.body.id)]]
    /\ UNCHANGED disk
    /\ UNCHANGED <<extract_vars, other_vars>>

\* The agent data left by earlier runs and requests: none, two items of one
\* file hash in the workflow's scope, and items of other scopes and hashes.
PastItem(content, total, scope) ==
    from_request_data([data |-> ExtractedData(Some(sha256(content)), total),
                       collection |-> scope.collection,
                       deployment_name |-> scope.deployment_name])

OtherCollection == [collection |-> "default", deployment_name |-> "_public"]
OtherDeployment ==
    [collection |-> EXTRACTED_DATA_COLLECTION, deployment_name |-> "other"]

PastStores ==
    {<<>>,
     <<PastItem(1, 1, WorkflowScope), PastItem(1, 2, WorkflowScope)>>,
     <<PastItem(1, 1, WorkflowScope), PastItem(1, 1, OtherCollection)>>,
     <<PastItem(2, 1, WorkflowScope), PastItem(1, 1, OtherDeployment)>>}

\* ------------------------------------------- synthetic extraction data

\* The seeds and the states of the pseudo-random generator.
SeedSpace == 65536
RngModulus == 65537

\* random.Random(seed): the generator is its state and every draw moves it.
Random(seed) == seed % RngModulus
Draw(rng) == (rng * 75 + 74) % RngModulus

\* rng.randint(a, b)
randint(rng, a, b) == [value |-> a + (Draw(rng) % (b - a + 1)), rng |-> Draw(rng)]

\* rng.choice(options)
choice(rng, options) ==
    [value |-> options[1 + (Draw(rng) % Len(options))], rng |-> Draw(rng)]

Min(a, b) == IF a < b THEN a ELSE b
Max(a, b) == IF a > b THEN a ELSE b

\* The text is a function of the seed and of the number of sentences: it is
\* kept as the number of its sentences and the length of the first one.
generate_text_blob(seed, sentences) ==
    [sentences |-> sentences, words |-> randint(Random(seed), 6, 12).value]

\* JSON schemas: a dict is a record, absent keys are absent fields, and the
\* properties of an object are the list of its (key, schema) pairs in the
\* order of the dict.
IntegerSchema == [type |-> "integer"]
BooleanSchema == [type |-> "boolean"]
TextSchema == [type |-> "string"]
EmailSchema == [type |-> "string", format |-> "email"]
DateTimeSchema == [type |-> "string", format |-> "date-time"]
TagsSchema == [type |-> "array", items |-> TextSchema]

Receipt ==
    [type |-> "object",
     properties |-> << <<"merchant", TextSchema>>, <<"total", IntegerSchema>>,
                       <<"paid", BooleanSchema>> >>]
Invoice ==
    [type |-> "object",
     properties |-> << <<"issued_at", DateTimeSchema>>,
                       <<"total", IntegerSchema>> >>]
Contact ==
    [type |-> "object",
     properties |-> << <<"email", EmailSchema>>, <<"tags", TagsSchema>> >>]

Schemas == {Receipt, Invoice, Contact}

TypeCode(type) ==
    CASE type = "object" -> 1 [] type = "array" -> 2 [] type = "integer" -> 3
      [] type = "number" -> 4 [] type = "boolean" -> 5 [] type = "string" -> 6
      [] OTHER -> 7

FormatCode(format) ==
    CASE format = "date-time" -> 1 [] format = "email" -> 2
      [] format = "uri" -> 3 [] OTHER -> 4

PropertyCode(key) ==
    CASE key = "merchant" -> 1 [] key = "total" -> 2 [] key = "paid" -> 3
      [] key = "issued_at" -> 4 [] key = "email" -> 5 [] key = "tags" -> 6
      [] OTHER -> 7

RECURSIVE schema_hash(_)
RECURSIVE PropertiesHash(_, _)
\* hash_schema of a schema: the digest of its canonical serialisation.
schema_hash(schema) ==
    LET t == IF "type" \in DOMAIN schema THEN TypeCode(schema.type) ELSE 0
        f == IF "format" \in DOMAIN schema THEN FormatCode(schema.format) ELSE 0
        p == IF "properties" \in DOMAIN schema
             THEN PropertiesHash(schema.properties, 1) ELSE 0
        i == IF "items" \in DOMAIN schema THEN schema_hash(schema.items) ELSE 0
    IN  ((((t * 31 + f) * 31 + p) % SeedSpace) * 31 + i) % SeedSpace

PropertiesHash(properties, acc) ==
    IF properties = <<>> THEN acc
    ELSE PropertiesHash(Tail(properties),
            (acc * 31 + PropertyCode(Head(properties)[1]) * 7
                + schema_hash(Head(properties)[2])) % SeedSpace)

NameCode(filename) ==
    CASE filename = "a.pdf" -> 11 [] filename = "b.pdf" -> 13 [] OTHER -> 17

\* fingerprint_file(content, filename): the digest of the bytes followed by
\* the name, or by nothing without a name.
fingerprint_file(content, filename) ==
    ((content * 40503 + 7919) * 31
        + (IF filename = None THEN 0 ELSE NameCode(filename[1]))) % SeedSpace

\* combined_seed(*parts), for two parts
combined_seed(part1, part2) == (part1 * 8191 + part2 * 127 + 1) % SeedSpace

\* A value the generator returns is a record of one field, the name of its
\* Python type: [int |-> 3], [str |-> text], [dict |-> function of the
\* keys], [list |-> sequence], [NoneType |-> None].
Typed(type, drawn) == [value |-> [t \in {type} |-> drawn.value], rng |-> drawn.rng]

\* A limit that lets the recursion run on past depth 8.
TooDeepAt12(depth) == depth > 12

\* if depth > 8
TooDeep(depth) == depth > 8

RECURSIVE _generate_value(_, _, _, _)
RECURSIVE GenerateEach(_, _, _, _)
\* _generate_value for a dict schema; the result is the value with the
\* generator after its draws.  clock is what utcnow() returns.
_generate_value(schema, rng, depth, clock) ==
    IF TooDeep(depth)
    THEN LET a == randint(rng, 1, 999)
             b == randint(a.rng, 0, 999)         \* rng.random()
             c == randint(b.rng, 0, 1000000)
             pick == choice(c.rng, <<1, 2, 3>>)
         IN  CASE pick.value = 1 -> [value |-> [int |-> a.value], rng |-> pick.rng]
               [] pick.value = 2 -> [value |-> [float |-> b.value], rng |-> pick.rng]
               [] OTHER -> [value |-> [str |-> generate_text_blob(c.value, 1)],
                            rng |-> pick.rng]
    ELSE IF "enum" \in DOMAIN schema /\ schema.enum # <<>>
    THEN LET index == randint(rng, 0, Len(schema.enum) - 1)
         IN  [value |-> [str |-> schema.enum[index.value + 1]], rng |-> index.rng]
    ELSE LET schema_type == IF "type" \in DOMAIN schema THEN schema.type ELSE ""
         IN
         CASE schema_type = "object" ->
                LET properties == IF "properties" \in DOMAIN schema
                                  THEN schema.properties ELSE <<>>
                    each == GenerateEach(
                                [i \in 1..Len(properties) |-> properties[i][2]],
                                rng, depth + 1, clock)
                    keys == {properties[i][1] : i \in 1..Len(properties)}
                IN  [value |->
                        [dict |->
                            [key \in keys |->
                                each.values[CHOOSE i \in 1..Len(properties) :
                                    /\ properties[i][1] = key
                                    /\ \A j \in (i + 1)..Len(properties) :
                                          properties[j][1] # key]]],
                     rng |-> each.rng]
           [] schema_type = "array" ->
                LET items_schema == IF "items" \in DOMAIN schema
                                    THEN schema.items ELSE [none |-> TRUE]
                    min_items == IF "minItems" \in DOMAIN schema
                                 THEN schema.minItems ELSE 1
                    max_items == IF "maxItems" \in DOMAIN schema
                                 THEN schema.maxItems ELSE Max(3, min_items)
                    length == randint(rng, min_items,
                                      Min(min_items + 2, max_items))
                    each == GenerateEach([i \in 1..length.value |-> items_schema],
                                         length.rng, depth + 1, clock)
                IN  [value |-> [list |-> each.values], rng |-> each.rng]
           [] schema_type = "integer" ->
                LET minimum == IF "minimum" \in DOMAIN schema
                               THEN schema.minimum ELSE 0
                    maximum == IF "maximum" \in DOMAIN schema
                               THEN schema.maximum ELSE minimum + 500
                IN  Typed("int", randint(rng, minimum, maximum))
           [] schema_type = "number" ->
                \* round(rng.uniform(minimum, maximum), 2), in hundredths
                LET minimum == IF "minimum" \in DOMAIN schema
                               THEN schema.minimum ELSE 0
                    maximum == IF "maximum" \in DOMAIN schema
                               THEN schema.maximum ELSE minimum + 500
                IN  Typed("float", randint(rng, minimum * 100, maximum * 100))
           [] schema_type = "boolean" -> Typed("bool", choice(rng, <<TRUE, FALSE>>))
           [] schema_type = "string" ->
                LET fmt == IF "format" \in DOMAIN schema THEN schema.format ELSE ""
                IN  CASE fmt = "date-time" ->
                           [value |-> [str |-> [timestamp |-> clock]], rng |-> rng]
                      [] fmt = "email" ->
                           LET n == randint(rng, 1000, 9999)
                           IN  [value |-> [str |-> [user |-> n.value]], rng |-> n.rng]
                      [] fmt = "uri" ->
                           LET n == randint(rng, 1000, 9999)
                           IN  [value |-> [str |-> [path |-> n.value]], rng |-> n.rng]
                      [] OTHER ->
                           LET min_length == IF "minLength" \in DOMAIN schema
                                             THEN schema.minLength ELSE 5
                               max_length == IF "maxLength" \in DOMAIN schema
                                             THEN schema.maxLength
                                             ELSE Max(10, min_length)
                               length == randint(rng, min_length,
                                                 Min(min_length + 5, max_length))
                               seed == randint(length.rng, 0, 1000000)
                           IN  [value |-> [str |-> generate_text_blob(
                                              seed.value, Max(1, length.value \div 5))],
                                rng |-> seed.rng]
           [] schema_type = "null" -> [value |-> [NoneType |-> None], rng |-> rng]
           [] OTHER ->
                IF "oneOf" \in DOMAIN schema
                THEN LET option == choice(rng, schema.oneOf)
                     IN  _generate_value(option.value, option.rng, depth + 1, clock)
                ELSE IF "anyOf" \in DOMAIN schema
                THEN LET option == choice(rng, schema.anyOf)
                     IN  _generate_value(option.value, option.rng, depth + 1, clock)
                ELSE LET seed == randint(rng, 0, 1000000)
                     IN  [value |-> [str |-> generate_text_blob(seed.value, 1)],
                          rng |-> seed.rng]

\* [_generate_value(s, rng, depth) for s in schemas]: the values in order,
\* each drawn from the generator the one before it left.
GenerateEach(schemas, rng, depth, clock) ==
    IF schemas = <<>> THEN [values |-> <<>>, rng |-> rng]
    ELSE LET first == _generate_value(Head(schemas), rng, depth, clock)
             rest == GenerateEach(Tail(schemas), first.rng, depth, clock)
         IN  [values |-> <<first.value>> \o rest.values, rng |-> rest.rng]

\* generate_data_from_schema(schema, seed), called when the clock shows clock
generate_data_from_schema(schema, seed, clock) ==
    _generate_value(schema, Random(seed), 0, clock).value

\* FakeExtractNamespace._generate_run_data
_generate_run_data(schema, file_hash, clock) ==
    generate_data_from_schema(schema, combined_seed(file_hash, schema_hash(schema)),
                              clock)

\* The files a stateless run is asked to extract: bytes with or without a name.
InlineFiles ==
    {[content |-> c, filename |-> f] : c \in Contents, f \in {None, Some("a.pdf")}}

\* POST api/v1/extraction/run with an inline file and no stub registered:
\* the run is stored with the generated data.
_handle_stateless_run ==
    /\ Len(extract_runs) < MaxExtractRuns
    /\ \E file \in InlineFiles, data_schema \in Schemas :
          LET sha == fingerprint_file(file.content, file.filename)
              run_data == _generate_run_data(data_schema, sha, now)
          IN  extract_runs' = Append(extract_runs,
                                [file |-> file, data_schema |-> data_schema,
                                 status |-> "SUCCESS", data |-> run_data,
                                 created_at |-> now])
    /\ UNCHANGED <<now, stored, call, runs, disk, other_vars>>

\* Time passes between requests.
Tick ==
    /\ now < MaxClock
    /\ now' = now + 1
    /\ UNCHANGED <<extract_runs, stored, call, runs, disk, other_vars>>

\* ------------------------------------------------ calls of the generator

\* The deepest schema handed to the generator.
MaxNesting == 11

\* A list of type names, written as its JSON text: a value that equals no
\* type name, as a Python list equals no str.
ObjectOrNull == "[object,null]"
ArrayOrNull == "[array,null]"
IntegerOrNull == "[integer,null]"
BooleanOrNull == "[boolean,null]"
StringOrInteger == "[string,integer]"
OnlyNull == "[null]"

TypeLists ==
    {ObjectOrNull, ArrayOrNull, IntegerOrNull, BooleanOrNull, StringOrInteger,
     OnlyNull}

\* {"type": [...], "properties": {"name": {"type": "string"}},
\*  "items": {"type": "integer"}}
UnionSchema(type_list) ==
    [type |-> type_list, properties |-> << <<"name", TextSchema>> >>,
     items |-> IntegerSchema]

RECURSIVE Chain(_)
\* An object whose one property, child, is an object of the same kind,
\* levels deep; a schema that contains itself is such a chain without end.
Chain(levels) ==
    IF levels = 0 THEN [type |-> "object", properties |-> <<>>]
    ELSE [type |-> "object", properties |-> << <<"child", Chain(levels - 1)>> >>]

RECURSIVE ChoiceChain(_)
\* The same through oneOf, anyOf and a one-item array in turn.
ChoiceChain(levels) ==
    IF levels = 0 THEN [type |-> "null"]
    ELSE CASE levels % 3 = 0 -> [oneOf |-> <<ChoiceChain(levels - 1)>>]
           [] levels % 3 = 1 -> [anyOf |-> <<ChoiceChain(levels - 1)>>]
           [] OTHER -> [type |-> "array", maxItems |-> 1,
                        items |-> ChoiceChain(levels - 1)]

GenSchemas ==
    {UnionSchema(t) : t \in TypeLists}
        \cup {Chain(k) : k \in 0..MaxNesting}
        \cup {ChoiceChain(k) : k \in 1..MaxNesting}
        \cup {IntegerSchema, [type |-> "number"], BooleanSchema, TextSchema,
              [type |-> "string", enum |-> <<"a", "b">>], Receipt}

Seeds == {42, 43}

\* The depths the tests and the recursion call the generator with.
Depths == {0, 1, 8, 9}

NoGen == [schema |-> [type |-> "null"], seed |-> 0, depth |-> 0,
          value |-> [NoneType |-> None]]

\* _generate_value(schema, random.Random(seed), depth)
GenerateValue ==
    /\ \E schema \in GenSchemas, seed \in Seeds, depth \in Depths :
          gen' = [schema |-> schema, seed |-> seed, depth |-> depth,
                  value |-> _generate_value(schema, Random(seed), depth, now).value]
    /\ UNCHANGED except_gen

\* ---------------------------------------------------- request matchers

default_organization_id == "org-test"

\* FileMatcher(filename, sha256, file_id), SchemaMatcher(model, schema_hash)
\* and RequestMatcher: a field that is not given is None.
FileMatcher(filename, digest, file_id) ==
    [FileMatcher |-> [filename |-> filename, sha256 |-> digest, file_id |-> file_id]]

SchemaMatcher(model, hash) == [model |-> model, schema_hash |-> hash]

RequestMatcher(file, schema, agent_id, project_id, organization_id, predicate) ==
    [file |-> file, schema |-> schema, agent_id |-> agent_id,
     project_id |-> project_id, organization_id |-> organization_id,
     predicate |-> predicate]

AnyRequest == RequestMatcher(None, None, None, None, None, None)

\* The predicates of the matchers, each a function of the request: one
\* takes every request, one takes none, one takes those that name a project.
Predicates == {"accept", "reject", "has_project"}

Holds(predicate, request) ==
    CASE predicate = "accept" -> TRUE
      [] predicate = "reject" -> FALSE
      [] OTHER -> request.project_id # None

\* The model classes of the schema matchers: the schema of a pydantic model,
\* None for a class with neither model_json_schema nor schema.
ModelSchemas == [ReceiptModel |-> Some(Receipt), PlainClass |-> None]

\* matchers._schema_hash_from_model
_schema_hash_from_model(model) ==
    IF ModelSchemas[model] = None THEN None
    ELSE Some(schema_hash(ModelSchemas[model][1]))

\* RequestContext(request, json, file_id, filename, file_sha256, schema_hash,
\* agent_id, project_id, organization_id); the request is kept as the
\* project_id parameter of its URL.
RequestContext(request, file_id, filename, file_sha256, hash, agent_id, project_id, organization_id) ==
    [request |-> request, file_id |-> file_id, filename |-> filename,
     file_sha256 |-> file_sha256, schema_hash |-> hash, agent_id |-> agent_id,
     project_id |-> project_id, organization_id |-> organization_id]

\* A str that is not None and not empty.
Given(value) == value # None /\ value # Some("")

\* Every criterion that the matcher sets holds for the request of the
\* context; a criterion that is not set is a wildcard.
CriteriaHold(context, matcher) ==
    IF matcher = None THEN TRUE
    ELSE LET m == matcher[1]
         IN  /\ Given(m.project_id) => m.project_id = context.project_id
             /\ Given(m.organization_id) => m.organization_id = context.organization_id
             /\ Given(m.agent_id) => m.agent_id = context.agent_id
             /\ m.file # None =>
                   IF DOMAIN m.file[1] = {"FileMatcher"}
                   THEN LET f == m.file[1].FileMatcher
                        IN  /\ Given(f.filename) => f.filename = context.filename
                            /\ Given(f.file_id) => f.file_id = context.file_id
                            /\ f.sha256 # None => f.sha256 = context.file_sha256
                   ELSE Holds(m.file[1].predicate, context.request)
             /\ m.schema # None =>
                   /\ m.schema[1].schema_hash # None =>
                         m.schema[1].schema_hash = context.schema_hash
                   /\ (m.schema[1].model # None /\ m.schema[1].schema_hash = None) =>
                         _schema_hash_from_model(m.schema[1].model[1])
                             = context.schema_hash
             /\ m.predicate # None => Holds(m.predicate[1], context.request)

\* RequestContext.matches, return by return
matches(context, matcher) ==
    IF matcher = None THEN TRUE
    ELSE LET m == matcher[1]
         IN  IF Given(m.project_id) /\ m.project_id # context.project_id THEN FALSE
             ELSE IF Given(m.organization_id)
                     /\ m.organization_id # context.organization_id THEN FALSE
             ELSE IF Given(m.agent_id) /\ m.agent_id # context.agent_id THEN FALSE
             ELSE IF /\ m.file # None
                     /\ IF DOMAIN m.file[1] = {"FileMatcher"}
                        THEN LET f == m.file[1].FileMatcher
                             IN  \/ Given(f.filename) /\ f.filename # context.filename
                                 \/ Given(f.file_id) /\ f.file_id # context.file_id
                                 \/ f.sha256 # None /\ f.sha256 # context.file_sha256
                        ELSE ~Holds(m.file[1].predicate, context.request)
                  THEN FALSE
             ELSE IF /\ m.schema # None
                     /\ m.schema[1].schema_hash # None
                     /\ m.schema[1].schema_hash # context.schema_hash
                  THEN FALSE
             ELSE IF /\ m.schema # None
                     /\ m.schema[1].model # None
                     /\ m.schema[1].schema_hash # None
                  THEN m.schema[1].schema_hash = context.schema_hash
             ELSE IF /\ m.schema # None
                     /\ m.schema[1].model # None
                     /\ m.schema[1].schema_hash = None
                  THEN _schema_hash_from_model(m.schema[1].model[1])
                           = context.schema_hash
             ELSE IF m.predicate # None /\ ~Holds(m.predicate[1], context.request)
                  THEN FALSE
             ELSE TRUE

\* The matchers of the stubs.
Matchers ==
    {None,
     Some(AnyRequest),
     Some([AnyRequest EXCEPT !.project_id = Some("proj-other")]),
     Some([AnyRequest EXCEPT !.organization_id = Some("")]),
     Some([AnyRequest EXCEPT !.agent_id = Some("agent_1")]),
     Some([AnyRequest EXCEPT !.file = Some(FileMatcher(Some("a.pdf"), None, None))]),
     Some([AnyRequest EXCEPT !.file = Some([predicate |-> "has_project"])]),
     Some([AnyRequest EXCEPT !.schema = Some(SchemaMatcher(None, Some(schema_hash(Contact))))]),
     Some([AnyRequest EXCEPT !.schema = Some(SchemaMatcher(Some("ReceiptModel"), None))]),
     Some([AnyRequest EXCEPT !.schema = Some(SchemaMatcher(Some("PlainClass"), None))]),
     Some([AnyRequest EXCEPT !.schema = Some(SchemaMatcher(Some("ReceiptModel"), None)),
                             !.predicate = Some("reject")]),
     Some([AnyRequest EXCEPT !.schema = Some(SchemaMatcher(Some("ReceiptModel"),
                                                          Some(schema_hash(Receipt)))),
                             !.predicate = Some("has_project")]),
     Some([AnyRequest EXCEPT !.predicate = Some("accept")]),
     Some([AnyRequest EXCEPT !.predicate = Some("reject")])}

\* The contexts of the requests: of a stateless run on an inline file, of
\* an agent job and of a presigned upload.
Contexts ==
    {RequestContext([project_id |-> p], Some("file_1"), n, Some(s),
                    Some(schema_hash(d)), None, pc, Some(default_organization_id)) :
        p \in {None, Some("proj-other")}, n \in {Some("a.pdf"), Some("inline-file_1")},
        s \in {1, 2}, d \in {Receipt, Contact},
        pc \in {Some("proj-test"), Some("proj-other")}}
    \cup {RequestContext([project_id |-> None], None, None, None, None, None, None, None),
          RequestContext([project_id |-> None], Some("file_1"), Some("a.pdf"), Some(1),
                         None, None, None, None)}

\* ------------------------------------------------------- files namespace

\* The number of file ids the server makes.
MaxFiles == 2

\* server.new_id("file"): the ids in the order they are made, none twice.
NewFileIds == <<"file_1", "file_2", "file_3", "file_4">>

\* An id that is a UUID, as the ids of files that come from the UI are.
UuidFileId == "123e4567-e89b-42d3-a456-426614174000"

\* The ids requests name: the ids made, one never made, and the UUID.
RequestFileIds ==
    {NewFileIds[k] : k \in 1..MaxFiles} \cup {"does-not-exist", UuidFileId}

\* is_valid_uuidv4(s): uuid.UUID(s, version=4) does not raise
is_valid_uuidv4(s) == s = UuidFileId

\* The bytes of the files: text with and without a line end.
FileContents == {<<"a">>, <<"a", "\n">>, <<"b", "\r", "\n">>}

\* The file names requests give, when they give one.
GivenNames == {None, Some("t.txt")}

upload_base_url == "https://uploads.fake-llama.test"
download_base_url == "https://downloads.fake-llama.test"

\* f"upload-{file_id}.bin" and f"file-{file_id}.pdf"
DefaultName(file_id) ==
    CASE file_id = "file_1" -> "upload-file_1.bin"
      [] file_id = "file_2" -> "upload-file_2.bin"
      [] file_id = "file_3" -> "upload-file_3.bin"
      [] file_id = "file_4" -> "upload-file_4.bin"
      [] OTHER -> "file-123e4567-e89b-42d3-a456-426614174000.pdf"

ByteCode(byte) == CASE byte = "a" -> 97 [] byte = "b" -> 98
                    [] byte = "\n" -> 10 [] OTHER -> 13

RECURSIVE BytesCode(_)
\* The bytes as the number the digest is taken of.
BytesCode(content) ==
    IF content = <<>> THEN 1
    ELSE (BytesCode(Tail(content)) * 31 + ByteCode(Head(content))) % 997

\* FakeFilesNamespace._build_file
_build_file(file_id, name, content) ==
    [id |-> file_id, name |-> name, content |-> content,
     file_size |-> Len(content),
     sha256 |-> fingerprint_file(BytesCode(content), Some(name))]

RECURSIVE rstrip(_, _)
\* bytes.rstrip(chars)
rstrip(content, chars) ==
    IF content # <<>> /\ content[Len(content)] \in chars
    THEN rstrip(SubSeq(content, 1, Len(content) - 1), chars)
    ELSE content

\* The part of a multipart body that carries the file: the bytes, then the
\* line end that stands before the closing delimiter.
MultipartPart(content, filename) ==
    [filename |-> filename, payload |-> content \o <<"\r", "\n">>]

\* FakeFilesNamespace._extract_multipart_file: payload.rstrip(b"\r\n")
_extract_multipart_file(part) ==
    [file_bytes |-> rstrip(part.payload, {"\r", "\n"}), filename |-> part.filename]

\* FakeFilesNamespace.__init__
NoFiles ==
    [_files |-> [i \in RequestFileIds |-> None],
     _pending |-> [i \in RequestFileIds |-> None],
     _upload_stubs |-> <<>>,
     ids_made |-> 0,
     stubs_made |-> 0,
     given |-> [i \in RequestFileIds |-> None]]

NoFileCall == [op |-> "none", file_id |-> "", status_code |-> 0, body |-> <<>>]

FileCalled(op, file_id, status_code, body) ==
    [op |-> op, file_id |-> file_id, status_code |-> status_code, body |-> body]

\* files.given is not in the code: it keeps, for a file id, the bytes the
\* file was preloaded or uploaded with, until the id is deleted.

\* FakeFilesNamespace.preload(path=...)
preload ==
    /\ files.ids_made < MaxFiles
    /\ \E content \in FileContents :
          LET file_id == NewFileIds[files.ids_made + 1]
              stored_file == _build_file(file_id, "t.txt", content)
          IN  /\ files' = [files EXCEPT !._files[file_id] = Some(stored_file),
                                        !.ids_made = @ + 1,
                                        !.given[file_id] = Some(content)]
              /\ file_call' = FileCalled("preload", file_id, 0, <<>>)
    /\ UNCHANGED except_files

\* FakeFilesNamespace.read(file_id)
read ==
    /\ \E file_id \in RequestFileIds :
          file_call' =
              IF files._files[file_id] = None
              THEN FileCalled("read", file_id, 0, [raised |-> "KeyError"])
              ELSE FileCalled("read", file_id, 0,
                              [content |-> files._files[file_id][1].content])
    /\ UNCHANGED <<files, except_files>>

\* PUT /api/v1/files
_handle_generate_presigned_url ==
    /\ files.ids_made < MaxFiles
    /\ \E name \in GivenNames :
          LET file_id == NewFileIds[files.ids_made + 1]
              pending == [file_id |-> file_id,
                          filename |-> IF name = None THEN DefaultName(file_id)
                                       ELSE name[1]]
          IN  /\ files' = [files EXCEPT !._pending[file_id] = Some(pending),
                                        !.ids_made = @ + 1]
              /\ file_call' = FileCalled("generate_presigned_url", file_id, 200,
                                  [base |-> upload_base_url, path |-> "upload",
                                   file_id |-> file_id])
    /\ UNCHANGED except_files

\* POST /api/v1/files
_handle_direct_upload ==
    /\ files.ids_made < MaxFiles
    /\ \E content \in FileContents, name \in GivenNames :
          LET part == _extract_multipart_file(MultipartPart(content, name))
              file_id == NewFileIds[files.ids_made + 1]
              stored_file ==
                  _build_file(file_id,
                              IF part.filename = None THEN DefaultName(file_id)
                              ELSE part.filename[1],
                              part.file_bytes)
          IN  /\ files' = [files EXCEPT !._files[file_id] = Some(stored_file),
                                        !.ids_made = @ + 1,
                                        !.given[file_id] = Some(content)]
              /\ file_call' = FileCalled("upload", file_id, 200,
                                         [name |-> stored_file.name])
    /\ UNCHANGED except_files

\* GET /api/v1/files/{file_id}
_handle_get_metadata ==
    /\ \E file_id \in RequestFileIds :
          IF files._files[file_id] = None /\ ~is_valid_uuidv4(file_id)
          THEN /\ file_call' = FileCalled("get", file_id, 404,
                                          [detail |-> "File not found"])
               /\ files' = files
          ELSE LET made == _build_file(file_id, DefaultName(file_id), <<"t">>)
                   after == IF files._files[file_id] = None
                            THEN [files EXCEPT !._files[file_id] = Some(made)]
                            ELSE files
               IN  /\ files' = after
                   /\ file_call' = FileCalled("get", file_id, 200,
                                       [name |-> after._files[file_id][1].name])
    /\ UNCHANGED except_files

\* DELETE /api/v1/files/{file_id}
_handle_delete ==
    /\ \E file_id \in RequestFileIds :
          /\ files' = [files EXCEPT !._files[file_id] = None,
                                    !._pending[file_id] = None,
                                    !.given[file_id] = None]
          /\ file_call' = FileCalled("delete", file_id, 200, <<>>)
    /\ UNCHANGED except_files

\* GET /api/v1/files/{file_id}/content
_handle_read_content ==
    /\ \E file_id \in RequestFileIds :
          file_call' =
              IF files._files[file_id] = None
              THEN FileCalled("read_content", file_id, 404,
                              [detail |-> "File not found"])
              ELSE FileCalled("read_content", file_id, 200,
                              [base |-> download_base_url, path |-> "files",
                               file_id |-> file_id, query |-> <<"token", "fake">>])
    /\ UNCHANGED <<files, except_files>>

\* Upload stubs registered, at most.
MaxUploadStubs == 1

\* The matchers and the status codes the upload stubs are registered with.
UploadMatchers ==
    {None,
     Some([AnyRequest EXCEPT !.file = Some(FileMatcher(Some("t.txt"), None, None))]),
     Some([AnyRequest EXCEPT !.file = Some(FileMatcher(None, None, Some("file_1")))])}

UploadStatuses == {413, 500}

\* FakeFilesNamespace.stub_upload: (matcher, status_code, body, once)
stub_upload ==
    /\ files.stubs_made < MaxUploadStubs
    /\ \E matcher \in UploadMatchers, status_code \in UploadStatuses,
          once \in BOOLEAN :
          files' = [files EXCEPT
                       !._upload_stubs =
                           Append(@, [matcher |-> matcher, status |-> status_code,
                                      body |-> [detail |-> "upload rejected by fake server"],
                                      once |-> once]),
                       !.stubs_made = @ + 1]
    /\ file_call' = FileCalled("stub_upload", "", 0, <<>>)
    /\ UNCHANGED except_files

\* The context _handle_presigned_upload hands to the upload stubs.
UploadContext(file_id, pending, content) ==
    RequestContext([project_id |-> None], Some(file_id),
                   IF pending = None THEN None ELSE Some(pending[1].filename),
                   Some(fingerprint_file(BytesCode(content), None)),
                   None, None, None, None)

\* The indexes of the upload stubs that match the context.
MatchingUploadStubs(stubs, context) ==
    {i \in 1..Len(stubs) : matches(context, stubs[i].matcher)}

\* The end of _handle_presigned_upload that leaves the upload pending.
store_upload_keeping_pending(namespace, file_id, pending, content) ==
    [namespace EXCEPT
        !._files[file_id] = Some(_build_file(file_id, pending.filename, content)),
        !.given[file_id] = Some(content)]

\* The end of _handle_presigned_upload: the file is stored, the pending
\* upload is popped.
store_upload(namespace, file_id, pending, content) ==
    [namespace EXCEPT
        !._files[file_id] = Some(_build_file(file_id, pending.filename, content)),
        !._pending[file_id] = None,
        !.given[file_id] = Some(content)]

\* PUT {upload base}/upload/{file_id}
_handle_presigned_upload ==
    /\ \E file_id \in RequestFileIds, content \in FileContents :
          LET pending == files._pending[file_id]
              context == UploadContext(file_id, pending, content)
              stubs == files._upload_stubs
              matching == MatchingUploadStubs(stubs, context)
          IN  IF matching # {}
              THEN LET index == CHOOSE i \in matching : \A j \in matching : i <= j
                   IN  /\ files' = [files EXCEPT
                                       !._upload_stubs =
                                           IF stubs[index].once
                                           THEN [i \in 1..(Len(stubs) - 1) |->
                                                   IF i < index THEN stubs[i]
                                                   ELSE stubs[i + 1]]
                                           ELSE stubs]
                       /\ file_call' = FileCalled("presigned_upload", file_id,
                                                  stubs[index].status,
                                                  stubs[index].body)
              ELSE IF pending = None
              THEN /\ file_call' = FileCalled("presigned_upload", file_id, 404,
                                              [detail |-> "Unknown file"])
                   /\ files' = files
              ELSE /\ files' = store_upload(files, file_id, pending[1], content)
                   /\ file_call' = FileCalled("presigned_upload", file_id, 204, <<>>)
    /\ UNCHANGED except_files

\* GET {download base}/files/{file_id}
_handle_presigned_download ==
    /\ \E file_id \in RequestFileIds :
          file_call' =
              IF files._files[file_id] = None
              THEN FileCalled("download", file_id, 404, [detail |-> "File not found"])
              ELSE FileCalled("download", file_id, 200,
                              [content |-> files._files[file_id][1].content])
    /\ UNCHANGED <<files, except_files>>

\* ------------------------------------------------------------ the server

\* The namespaces _register_namespaces knows.
KnownNamespaces == {"files", "extract", "parse", "classify", "agent_data"}

\* The names a test may ask for, one of them in upper case.
NamespaceNames ==
    {"files", "extract", "parse", "classify", "agent_data", "pipelines",
     "sheets", "split", "FILES"}

\* namespaces=...: no argument, or a list of names (its order plays no part)
NamespaceArgs == {None} \cup {Some(names) : names \in SUBSET NamespaceNames}

\* name.lower()
lower(name) == IF name = "FILES" THEN "files" ELSE name

\* Some of the routes each namespace's register() adds.
RouteNames(namespace) ==
    CASE namespace = "files" ->
            {"generate_presigned_url", "upload", "get", "delete", "read_content",
             "presigned_upload", "download"}
      [] namespace = "extract" -> {"extract_run", "agent_job", "agent_run"}
      [] namespace = "parse" -> {"upload", "job_result"}
      [] namespace = "classify" -> {"classify"}
      [] namespace = "agent_data" ->
            {"create", "aggregate", "delete", "search", "delete_item", "get_item",
             "update_item"}
      [] OTHER -> {}

RoutesOf(namespace) ==
    {[namespace |-> namespace, route |-> r] : r \in RouteNames(namespace)}

\* FakeLlamaCloudServer.__init__
NewServer(namespaces) ==
    LET selected == IF namespaces = None \/ namespaces = Some({})
                    THEN {"files", "extract", "parse", "classify", "agent_data"}
                    ELSE namespaces[1]
    IN  [namespaces |-> namespaces,
         serial |-> 0,
         _namespace_names |-> {lower(name) : name \in selected},
         _installed |-> FALSE,
         _registered |-> FALSE,
         router |-> [entered |-> 0, routes |-> {},
                     registered |-> [n \in KnownNamespaces |-> 0]]]

\* FakeLlamaCloudServer._register_namespaces
_register_namespaces(s) ==
    LET names == KnownNamespaces \cap s._namespace_names
    IN  [s EXCEPT !.router.routes = @ \cup UNION {RoutesOf(n) : n \in names},
                  !.router.registered =
                      [n \in KnownNamespaces |-> IF n \in names THEN @[n] + 1 ELSE @[n]],
                  !._registered = TRUE]

\* router.route(url__regex=r"^http://localhost:.*").pass_through()
PassThrough(s) ==
    [s EXCEPT !.router.routes = @ \cup {[namespace |-> "", route |-> "localhost"]}]

\* An install that enters the router whether or not it is installed.
install_entering_again(s) ==
    LET passed == PassThrough(s)
        registered == IF ~passed._registered THEN _register_namespaces(passed)
                      ELSE passed
    IN  [registered EXCEPT !.router.entered = @ + 1, !._installed = TRUE]

\* FakeLlamaCloudServer.install
install(s) ==
    LET passed == PassThrough(s)
        registered == IF ~passed._registered THEN _register_namespaces(passed)
                      ELSE passed
    IN  IF ~registered._installed
        THEN [registered EXCEPT !.router.entered = @ + 1, !._installed = TRUE]
        ELSE registered

\* FakeLlamaCloudServer.uninstall
uninstall(s) ==
    IF s._installed
    THEN [s EXCEPT !.router.entered = @ - 1, !._installed = FALSE]
    ELSE s

\* FakeLlamaCloudServer(namespaces=...): a new server, built once the one
\* before it is no longer installed.  serial is not in the code: it tells
\* the new server object from the one before it.
__init__ ==
    /\ ~server._installed
    /\ \E namespaces \in NamespaceArgs :
          server' = [NewServer(namespaces) EXCEPT !.serial = 1 - server.serial]
    /\ UNCHANGED except_server

Install ==
    /\ server' = install(server)
    /\ UNCHANGED except_server

Uninstall ==
    /\ server' = uninstall(server)
    /\ UNCHANGED except_server

\* with server: ...
__enter__ ==
    /\ server' = install(server)
    /\ UNCHANGED except_server

__exit__ ==
    /\ server' = uninstall(server)
    /\ UNCHANGED except_server

\* ------------------------------------------------- create_union_schema

\* The most input schemas of one call.
MaxSchemas == 2

\* The field names, in sorted order (the sort of sorted() on these names).
FieldNames == <<"amount", "date", "document_type", "name">>

\* The document type names, the keys of the schemas dict.
TypeNames == {"10-K", "10-Q", "8-K"}

\* The names the discriminator field is given.
DiscriminatorFields == {"document_type", "name"}

\* Property definitions that differ.
StringDef == [type |-> "string"]
NumberDef == [type |-> "number"]

\* The input schemas: a dict's items are the list of its (key, value) pairs
\* in the order of the dict.  The last has no properties and no required.
InputSchemas ==
    {[properties |-> << <<"name", StringDef>>, <<"amount", NumberDef>> >>,
      required |-> <<"name", "amount">>],
     [properties |-> << <<"amount", StringDef>>, <<"date", StringDef>> >>,
      required |-> <<"amount">>],
     [properties |-> << <<"document_type", NumberDef>>, <<"name", NumberDef>>,
                        <<"date", NumberDef>> >>,
      required |-> <<"document_type", "name", "date", "name">>],
     [properties |-> << <<"date", StringDef>> >>],
     [description |-> "empty"]}

RECURSIVE SchemaDicts(_)
\* The dicts of n document types: lists of (name, schema) with distinct names.
SchemaDicts(n) ==
    IF n = 0 THEN {<<>>}
    ELSE {Append(d, <<name, schema>>) :
            d \in SchemaDicts(n - 1), name \in TypeNames, schema \in InputSchemas}

DistinctKeys(d) == \A i, j \in 1..Len(d) : d[i][1] = d[j][1] => i = j

SchemaArgs ==
    {d \in UNION {SchemaDicts(n) : n \in 0..MaxSchemas} : DistinctKeys(d)}

\* schema.get("properties", {}).items() and schema.get("required", [])
PropertiesOf(schema) ==
    IF "properties" \in DOMAIN schema THEN schema.properties ELSE <<>>
RequiredOf(schema) ==
    IF "required" \in DOMAIN schema THEN schema.required ELSE <<>>

Range(seq) == {seq[i] : i \in 1..Len(seq)}

\* sorted(names)
sorted(names) == SelectSeq(FieldNames, LAMBDA name : name \in names)

RECURSIVE CollectProperties(_, _, _)
\* The loop over the properties of one schema: a name is kept with the
\* definition it was first seen with.
CollectProperties(items, all, discriminator_field) ==
    IF items = <<>> THEN all
    ELSE LET prop_name == Head(items)[1]
             seen == {all[i][1] : i \in 1..Len(all)}
         IN  CollectProperties(Tail(items),
                 IF prop_name = discriminator_field \/ prop_name \in seen
                 THEN all ELSE Append(all, Head(items)),
                 discriminator_field)

RECURSIVE all_properties_last_wins(_, _, _)
\* The loop with the definition a name was last seen with.
all_properties_last_wins(schemas, all, discriminator_field) ==
    IF schemas = <<>> THEN all
    ELSE all_properties_last_wins(
            SubSeq(schemas, 1, Len(schemas) - 1),
            CollectProperties(PropertiesOf(schemas[Len(schemas)][2]), all,
                              discriminator_field),
            discriminator_field)

RECURSIVE all_properties(_, _, _)
\* for schema in schemas.values(): for prop_name, prop_def in ...
all_properties(schemas, all, discriminator_field) ==
    IF schemas = <<>> THEN all
    ELSE all_properties(Tail(schemas),
                        CollectProperties(PropertiesOf(Head(schemas)[2]), all,
                                          discriminator_field),
                        discriminator_field)

\* The fields required in any of the schemas.
required_in_any(schema_list) ==
    UNION {Range(RequiredOf(schema_list[i])) : i \in 1..Len(schema_list)}

\* common_required: the required fields of the first schema, intersected
\* with those of every other one.
common_required(schema_list) ==
    IF schema_list = <<>> THEN {}
    ELSE {name \in Range(RequiredOf(schema_list[1])) :
            \A i \in 2..Len(schema_list) : name \in Range(RequiredOf(schema_list[i]))}

create_union_schema(schemas, discriminator_field) ==
    LET schema_list == [i \in 1..Len(schemas) |-> schemas[i][2]]
        required_fields ==
            <<discriminator_field>>
                \o sorted(common_required(schema_list) \ {discriminator_field})
        discriminator ==
            [type |-> "string",
             enum |-> [i \in 1..Len(schemas) |-> schemas[i][1]],
             description |-> "Type of document that was extracted"]
    IN  [type |-> "object",
         properties |-> << <<discriminator_field, discriminator>> >>
                            \o all_properties(schemas, <<>>, discriminator_field),
         required |-> required_fields]

NoUnion ==
    [schemas |-> <<>>, discriminator_field |-> "document_type",
     result |-> create_union_schema(<<>>, "document_type")]

CreateUnionSchema ==
    /\ \E schemas \in SchemaArgs, discriminator_field \in DiscriminatorFields :
          union' = [schemas |-> schemas, discriminator_field |-> discriminator_field,
                    result |-> create_union_schema(schemas, discriminator_field)]
    /\ UNCHANGED except_union

\* ------------------------------------------------------- parse namespace

\* The number of parse jobs the server makes.
MaxParseJobs == 2

\* server.new_id("parse-job"), in the order the ids are made
NewParseJobIds == <<"parse-job_1", "parse-job_2", "parse-job_3", "parse-job_4">>

\* The job ids requests name: the ids made and one never made.
RequestJobIds == {NewParseJobIds[k] : k \in 1..MaxParseJobs} \cup {"missing-job"}

allowed_expands == {"text", "markdown", "items"}

\* request.url.params.get_list("expand"): absent, each section, several,
\* a name that is not a section, and all of them.
ExpandLists ==
    {<<>>, <<"text">>, <<"markdown">>, <<"items">>, <<"text", "markdown">>,
     <<"metadata">>, <<"items", "metadata">>, <<"text", "markdown", "items">>}

\* The names of the uploaded files.
UploadNames == {"a.pdf", "upload.pdf"}

\* int(seed_hash[:16], 16) for hash_schema({"filename": ..., "form": ...})
UploadSeed(filename) == (NameCode(filename) * 8191 + 5) % SeedSpace

\* The ParsingGetResponse of a job: one page of the seeded text in each of
\* the three sections.
ParseRecord(job_id, seed) ==
    LET page_text == generate_text_blob(seed, 3)
    IN  [job |-> [id |-> job_id, status |-> "COMPLETED"],
         items |-> Some([pages |-> <<[md |-> page_text, value |-> page_text,
                                      page_number |-> 1]>>]),
         markdown |-> Some([pages |-> <<[markdown |-> page_text,
                                         page_number |-> 1]>>]),
         text |-> Some([pages |-> <<[text |-> page_text, page_number |-> 1]>>])]

\* FakeParseNamespace.__init__
NoParse == [_jobs |-> [j \in RequestJobIds |-> None], ids_made |-> 0]

NoParseCall ==
    [op |-> "none", job_id |-> "", expand |-> <<>>, status_code |-> 0,
     body |-> <<>>]

ParseCalled(op, job_id, expand, status_code, body) ==
    [op |-> op, job_id |-> job_id, expand |-> expand,
     status_code |-> status_code, body |-> body]

\* POST /api/v2/parse/upload
_handle_upload ==
    /\ parse.ids_made < MaxParseJobs
    /\ \E filename \in UploadNames :
          LET job_id == NewParseJobIds[parse.ids_made + 1]
              record == ParseRecord(job_id, UploadSeed(filename))
          IN  /\ parse' = [parse EXCEPT !._jobs[job_id] = Some(record),
                                        !.ids_made = @ + 1]
              /\ parse_call' = ParseCalled("upload", job_id, <<>>, 200,
                                           [id |-> job_id, status |-> "COMPLETED"])
    /\ UNCHANGED except_parse

\* The status codes a fetch of a source_url answers with.
FetchStatuses == {200, 404, 500}

\* _get_file_from_source_url: the status code of a failed fetch, the file
\* otherwise
_get_file_from_source_url(fetch_status) ==
    IF fetch_status >= 400 THEN [int |-> fetch_status] ELSE [tuple |-> "file"]

\* POST /api/v2/parse with a file_id, with a source_url or with neither
_handle_file_id_source_url ==
    /\ parse.ids_made < MaxParseJobs
    /\ \E file_id \in {None} \cup {Some(i) : i \in RequestFileIds},
          source_url \in {None} \cup {Some(st) : st \in FetchStatuses} :
          IF file_id # None /\ files._files[file_id[1]] = None
          THEN /\ parse_call' = ParseCalled("parse", "", <<>>, 404,
                                            [details |-> "File not found"])
               /\ parse' = parse
          ELSE IF file_id = None /\ source_url # None
          THEN LET response == _get_file_from_source_url(source_url[1])
               IN  IF DOMAIN response = {"int"}
                   THEN /\ parse_call' = ParseCalled("parse", "", <<>>, response.int,
                                            [details |-> "Could not find file"])
                        /\ parse' = parse
                   ELSE \* self._server.files.preload_from_source: the files
                        \* namespace has no such method
                        /\ parse_call' = ParseCalled("parse", "", <<>>, 0,
                                            [raised |-> "AttributeError"])
                        /\ parse' = parse
          ELSE IF file_id = None
          THEN /\ parse_call' = ParseCalled("parse", "", <<>>, 400,
                                    [details |-> "file_id or source_url needed"])
               /\ parse' = parse
          ELSE LET job_id == NewParseJobIds[parse.ids_made + 1]
                   record == ParseRecord(job_id, files._files[file_id[1]][1].sha256)
               IN  /\ parse' = [parse EXCEPT !._jobs[job_id] = Some(record),
                                             !.ids_made = @ + 1]
                   /\ parse_call' = ParseCalled("parse", job_id, <<>>, 200,
                                        [id |-> job_id, status |-> "COMPLETED"])
    /\ UNCHANGED except_parse

\* The sections of a get: those of expand that are allowed, items without
\* an expand.
expandees(expand) ==
    IF Len(expand) > 0 THEN Range(expand) \cap allowed_expands ELSE {"items"}

\* A get that clears the sections in the stored record, not in a copy.
job_result_without_copy(jobs, job_id, expand) ==
    IF jobs[job_id] = None
    THEN [jobs |-> jobs, status_code |-> 404, body |-> [detail |-> "Result not found"]]
    ELSE LET job_response == jobs[job_id][1]
             cleared ==
                 [job_response EXCEPT
                     !.markdown = IF "markdown" \notin expandees(expand) THEN None ELSE @,
                     !.text = IF "text" \notin expandees(expand) THEN None ELSE @,
                     !.items = IF "items" \notin expandees(expand) THEN None ELSE @]
         IN  [jobs |-> [jobs EXCEPT ![job_id] = Some(cleared)],
              status_code |-> 200, body |-> cleared]

\* FakeParseNamespace._handle_job_result on the jobs: the jobs after it and
\* the response.
job_result(jobs, job_id, expand) ==
    IF jobs[job_id] = None
    THEN [jobs |-> jobs, status_code |-> 404, body |-> [detail |-> "Result not found"]]
    ELSE LET job_response == jobs[job_id][1]
             jb_resp_copy ==
                 [job_response EXCEPT
                     !.markdown = IF "markdown" \notin expandees(expand) THEN None ELSE @,
                     !.text = IF "text" \notin expandees(expand) THEN None ELSE @,
                     !.items = IF "items" \notin expandees(expand) THEN None ELSE @]
         IN  [jobs |-> jobs, status_code |-> 200, body |-> jb_resp_copy]

\* GET /api/v2/parse/{job_id}
_handle_job_result ==
    /\ \E job_id \in RequestJobIds, expand \in ExpandLists :
          LET out == job_result(parse._jobs, job_id, expand)
          IN  /\ parse' = [parse EXCEPT !._jobs = out.jobs]
              /\ parse_call' = ParseCalled("job_result", job_id, expand,
                                           out.status_code, out.body)
    /\ UNCHANGED except_parse

\* ---------------------------------------------------- pipelines namespace

\* The number of pipelines created.
MaxPipelines == 2

\* The number of ingest requests that reach a pipeline.
MaxIngests == 2

\* server.new_id(prefix): the k-th id made with the prefix (a fresh uuid)
new_id(prefix, k) == prefix \o "_" \o ToString(k)

default_project_id == "proj-test"

\* The pipeline ids requests name: those made and one never made.
PipelineIdSpace ==
    {new_id("pipeline", k) : k \in 1..MaxPipelines} \cup {"nonexistent-id"}

\* A dict that is read in order is the list of its (key, value) pairs in the
\* order of insertion; dict[key] = value keeps the place of a key it has.
DictPut(dict, key, value) ==
    IF \E i \in 1..Len(dict) : dict[i][1] = key
    THEN [i \in 1..Len(dict) |-> IF dict[i][1] = key THEN <<key, value>> ELSE dict[i]]
    ELSE Append(dict, <<key, value>>)

\* A text is the list of its pieces: words, blanks and blank lines.
DocumentPayload(id, text, metadata) == [id |-> id, text |-> text, metadata |-> metadata]

\* The JSON body of a document request: a bare array, a dict with or without
\* the key, or something else.
DocumentBodies ==
    {[list |-> <<DocumentPayload(Some(""), <<"alpha", "\n\n", "bravo", " ">>,
                                 Some("test")),
                 DocumentPayload(Some("custom-doc-1"), <<" ">>, None)>>],
     [dict |-> Some(<<DocumentPayload(Some("custom-doc-1"), <<"alpha">>, None)>>)],
     [dict |-> None],
     [str |-> "documents"]}

\* An entry of a file request: a plain string, or a dict whose file_id is
\* absent (None), null (Some(None)) or given.
FileLists ==
    {<<[str |-> "file-xyz"],
       [dict |-> [file_id |-> Some(None), name |-> Some("")]]>>,
     <<[dict |-> [file_id |-> Some(Some("file-abc")), name |-> Some("report.pdf")]],
       [dict |-> [file_id |-> None, name |-> None]]>>}

FileBodies == {[list |-> l] : l \in FileLists} \cup {[dict |-> None]}

PipelineNames == {None, Some(""), Some("test-pipeline")}

\* The payloads of an update: the keys it gives with a value.
UpdatePayloads ==
    {[name |-> None, status |-> None],
     [name |-> Some("new-name"), status |-> None],
     [name |-> None, status |-> Some("not-a-status")]}

Queries == {"", "bravo"}

\* payload.get("dense_similarity_top_k")
TopKs == {None, Some(0), Some(1)}

\* FakePipelinesNamespace.__init__
NoPipelines ==
    [_pipelines |-> [p \in PipelineIdSpace |-> None],
     _documents |-> [p \in PipelineIdSpace |-> None],
     _files |-> [p \in PipelineIdSpace |-> None],
     pipelines_made |-> 0, docs_made |-> 0, files_made |-> 0, pfs_made |-> 0,
     ingests |-> 0]

NoPipelineCall == [op |-> "none", pipeline_id |-> "", status_code |-> 0, body |-> <<>>]

PipelineCalled(op, pipeline_id, status_code, body) ==
    [op |-> op, pipeline_id |-> pipeline_id, status_code |-> status_code,
     body |-> body]

PipelineNotFound(op, pipeline_id) ==
    PipelineCalled(op, pipeline_id, 404, [detail |-> "Pipeline not found"])

\* POST /api/v1/pipelines
_handle_create ==
    /\ \E name \in PipelineNames :
          IF name = None \/ name = Some("")
          THEN /\ pipeline_call' = PipelineCalled("create", "", 400,
                                                  [detail |-> "name is required"])
               /\ pipelines' = pipelines
          ELSE /\ pipelines.pipelines_made < MaxPipelines
               /\ LET pipeline_id == new_id("pipeline", pipelines.pipelines_made + 1)
                      pipeline == [id |-> pipeline_id, name |-> name[1],
                                   project_id |-> default_project_id,
                                   embedding_config |-> "MANAGED_OPENAI_EMBEDDING",
                                   created_at |-> now, updated_at |-> now,
                                   pipeline_type |-> "MANAGED",
                                   status |-> "CREATED"]
                  IN  /\ pipelines' =
                            [pipelines EXCEPT !._pipelines[pipeline_id] = Some(pipeline),
                                              !._documents[pipeline_id] = Some(<<>>),
                                              !._files[pipeline_id] = Some(<<>>),
                                              !.pipelines_made = @ + 1]
                      /\ pipeline_call' = PipelineCalled("create", pipeline_id, 200,
                                                         pipeline)
    /\ UNCHANGED except_pipelines

\* GET /api/v1/pipelines
_handle_list ==
    /\ \E pipeline_name \in PipelineNames :
          LET made == [k \in 1..pipelines.pipelines_made |-> new_id("pipeline", k)]
              kept(pipeline_id) ==
                  /\ pipelines._pipelines[pipeline_id] # None
                  /\ \/ pipeline_name = None \/ pipeline_name = Some("")
                     \/ pipelines._pipelines[pipeline_id][1].name = pipeline_name[1]
              listed == SelectSeq(made, kept)
          IN  pipeline_call' =
                  PipelineCalled("list", "", 200,
                      [i \in 1..Len(listed) |-> pipelines._pipelines[listed[i]][1]])
    /\ UNCHANGED <<pipelines, except_pipelines>>

\* GET /api/v1/pipelines/{pipeline_id}
_handle_get ==
    /\ \E pipeline_id \in PipelineIdSpace :
          pipeline_call' =
              IF pipelines._pipelines[pipeline_id] = None
              THEN PipelineNotFound("get", pipeline_id)
              ELSE PipelineCalled("get", pipeline_id, 200,
                                  pipelines._pipelines[pipeline_id][1])
    /\ UNCHANGED <<pipelines, except_pipelines>>

\* The values Pipeline.model_validate takes for status.
PipelineStatuses == {"CREATED", "DELETING"}

\* PUT /api/v1/pipelines/{pipeline_id}
_handle_update ==
    /\ \E pipeline_id \in PipelineIdSpace, payload \in UpdatePayloads :
          IF pipelines._pipelines[pipeline_id] = None
          THEN /\ pipeline_call' = PipelineNotFound("update", pipeline_id)
               /\ pipelines' = pipelines
          ELSE LET pipeline == pipelines._pipelines[pipeline_id][1]
                   data == [pipeline EXCEPT
                               !.name = IF payload.name # None THEN payload.name[1] ELSE @,
                               !.status = IF payload.status # None
                                          THEN payload.status[1] ELSE @,
                               !.updated_at = now]
               IN  IF data.status \notin PipelineStatuses
                   THEN \* Pipeline.model_validate raises
                        /\ pipeline_call' = PipelineCalled("update", pipeline_id, 0,
                                                [raised |-> "ValidationError"])
                        /\ pipelines' = pipelines
                   ELSE /\ pipelines' =
                              [pipelines EXCEPT !._pipelines[pipeline_id] = Some(data)]
                        /\ pipeline_call' = PipelineCalled("update", pipeline_id, 200,
                                                           data)
    /\ UNCHANGED except_pipelines

\* A delete that leaves the files of the pipeline in their store.
delete_pipeline_keeping_files(ns, pipeline_id) ==
    [ns EXCEPT !._pipelines[pipeline_id] = None,
               !._documents[pipeline_id] = None]

\* The three pops of _handle_delete
delete_pipeline(ns, pipeline_id) ==
    [ns EXCEPT !._pipelines[pipeline_id] = None,
               !._documents[pipeline_id] = None,
               !._files[pipeline_id] = None]

\* DELETE /api/v1/pipelines/{pipeline_id}
pipelines_handle_delete ==
    /\ \E pipeline_id \in PipelineIdSpace :
          /\ pipelines' = delete_pipeline(pipelines, pipeline_id)
          /\ pipeline_call' = PipelineCalled("delete", pipeline_id, 200, <<>>)
    /\ UNCHANGED except_pipelines

\* GET /api/v1/pipelines/{pipeline_id}/status
_handle_get_status ==
    /\ \E pipeline_id \in PipelineIdSpace :
          pipeline_call' =
              IF pipelines._pipelines[pipeline_id] = None
              THEN PipelineNotFound("status", pipeline_id)
              ELSE PipelineCalled("status", pipeline_id, 200, [status |-> "SUCCESS"])
    /\ UNCHANGED <<pipelines, except_pipelines>>

\* _extract_list(payload, key), the dict given as its value for the key
_extract_list(payload) ==
    IF DOMAIN payload = {"list"} THEN payload.list
    ELSE IF DOMAIN payload = {"dict"}
         THEN IF payload.dict = None THEN <<>> ELSE payload.dict[1]
         ELSE <<>>

RECURSIVE IngestEach(_, _, _, _)
\* The loop of _ingest_documents: the store, the number of doc ids made and
\* the results after the documents.
IngestEach(store, made, documents, results) ==
    IF documents = <<>>
    THEN [store |-> store, made |-> made, results |-> results]
    ELSE LET doc_payload == Head(documents)
             given == doc_payload.id # None /\ doc_payload.id # Some("")
             doc_id == IF given THEN doc_payload.id[1] ELSE new_id("doc", made + 1)
             doc == [id |-> doc_id, text |-> doc_payload.text,
                     metadata |-> doc_payload.metadata]
         IN  IngestEach(DictPut(store, doc_id, doc),
                        IF given THEN made ELSE made + 1,
                        Tail(documents), Append(results, doc))

\* FakePipelinesNamespace._ingest_documents: the namespace after it and the
\* documents it returns
_ingest_documents(ns, pipeline_id, documents) ==
    LET store == IF ns._documents[pipeline_id] = None THEN <<>>
                 ELSE ns._documents[pipeline_id][1]
        out == IngestEach(store, ns.docs_made, documents, <<>>)
    IN  [ns |-> [ns EXCEPT !._documents[pipeline_id] = Some(out.store),
                           !.docs_made = out.made,
                           !.ingests = @ + 1],
         results |-> out.results]

\* POST /api/v1/pipelines/{pipeline_id}/documents
_handle_create_documents ==
    /\ \E pipeline_id \in PipelineIdSpace, payload \in DocumentBodies :
          IF pipelines._pipelines[pipeline_id] = None
          THEN /\ pipeline_call' = PipelineNotFound("create_documents", pipeline_id)
               /\ pipelines' = pipelines
          ELSE /\ pipelines.ingests < MaxIngests
               /\ LET out == _ingest_documents(pipelines, pipeline_id,
                                               _extract_list(payload))
                  IN  /\ pipelines' = out.ns
                      /\ pipeline_call' = PipelineCalled("create_documents",
                                              pipeline_id, 200, out.results)
    /\ UNCHANGED except_pipelines

\* PUT /api/v1/pipelines/{pipeline_id}/documents
_handle_upsert_documents ==
    /\ \E pipeline_id \in PipelineIdSpace, payload \in DocumentBodies :
          IF pipelines._pipelines[pipeline_id] = None
          THEN /\ pipeline_call' = PipelineNotFound("upsert_documents", pipeline_id)
               /\ pipelines' = pipelines
          ELSE /\ pipelines.ingests < MaxIngests
               /\ LET out == _ingest_documents(pipelines, pipeline_id,
                                               _extract_list(payload))
                  IN  /\ pipelines' = out.ns
                      /\ pipeline_call' = PipelineCalled("upsert_documents",
                                              pipeline_id, 200, out.results)
    /\ UNCHANGED except_pipelines

RECURSIVE UpsertEach(_, _, _, _, _)
\* The loop of _handle_upsert_files over the entries.
UpsertEach(ns, pipeline_id, store, entries, results) ==
    IF entries = <<>>
    THEN [ns |-> [ns EXCEPT !._files[pipeline_id] = Some(store)],
          results |-> results]
    ELSE LET entry == Head(entries)
             is_dict == DOMAIN entry = {"dict"}
             made_file == is_dict /\ entry.dict.file_id = None
             file_id == IF ~is_dict THEN Some(entry.str)
                        ELSE IF made_file
                             THEN Some(new_id("file", ns.files_made + 1))
                             ELSE entry.dict.file_id[1]
             name == IF is_dict THEN entry.dict.name ELSE None
             pf_id == new_id("pf", ns.pfs_made + 1)
             pf == [id |-> pf_id, pipeline_id |-> pipeline_id, file_id |-> file_id,
                    name |-> IF name # None /\ name # Some("") THEN name[1]
                             ELSE "file-" \o (IF file_id = None THEN "None"
                                              ELSE file_id[1]),
                    status |-> "SUCCESS",
                    project_id |-> ns._pipelines[pipeline_id][1].project_id,
                    created_at |-> now, updated_at |-> now]
         IN  UpsertEach([ns EXCEPT !.pfs_made = @ + 1,
                                   !.files_made = IF made_file THEN @ + 1 ELSE @],
                        pipeline_id, DictPut(store, pf_id, pf), Tail(entries),
                        Append(results, pf))

\* PUT /api/v1/pipelines/{pipeline_id}/files
_handle_upsert_files ==
    /\ \E pipeline_id \in PipelineIdSpace, payload \in FileBodies :
          IF pipelines._pipelines[pipeline_id] = None
          THEN /\ pipeline_call' = PipelineNotFound("upsert_files", pipeline_id)
               /\ pipelines' = pipelines
          ELSE /\ pipelines.ingests < MaxIngests
               /\ LET store == IF pipelines._files[pipeline_id] = None THEN <<>>
                               ELSE pipelines._files[pipeline_id][1]
                      out == UpsertEach([pipelines EXCEPT !.ingests = @ + 1],
                                        pipeline_id, store, _extract_list(payload),
                                        <<>>)
                  IN  /\ pipelines' = out.ns
                      /\ pipeline_call' = PipelineCalled("upsert_files", pipeline_id,
                                                         200, out.results)
    /\ UNCHANGED except_pipelines

\* p.strip() of a list of pieces
RECURSIVE lstrip(_)
lstrip(text) ==
    IF text # <<>> /\ Head(text) \in {" ", "\n\n"} THEN lstrip(Tail(text)) ELSE text

RECURSIVE strip(_)
strip(text) ==
    IF text # <<>> /\ text[Len(text)] \in {" ", "\n\n"}
    THEN strip(SubSeq(text, 1, Len(text) - 1))
    ELSE lstrip(text)

RECURSIVE split(_, _)
\* text.split("\n\n"): the parts between the blank lines, the last one being
\* built in current
split(text, current) ==
    IF text = <<>> THEN <<current>>
    ELSE IF Head(text) = "\n\n" THEN <<current>> \o split(Tail(text), <<>>)
    ELSE split(Tail(text), Append(current, Head(text)))

\* [p.strip() for p in text.split("\n\n") if p.strip()], or the text itself
Paragraphs(text) ==
    LET parts == split(text, <<>>)
        stripped == [i \in 1..Len(parts) |-> strip(parts[i])]
        paragraphs == SelectSeq(stripped, LAMBDA p : p # <<>>)
    IN  IF paragraphs # <<>> THEN paragraphs
        ELSE IF text # <<>> THEN <<text>> ELSE <<>>

\* The words and ids the seeds of a retrieval are made of, for their digest.
SeededStrings ==
    <<"", " ", "\n\n", "alpha", "bravo", "file-xyz", "file-abc", "nonexistent-id">>
        \o [k \in 1..(MaxPipelines + 1) |-> new_id("pipeline", k)]
        \o [k \in 1..(2 * MaxIngests + 2) |-> new_id("pf", k)]
        \o [k \in 1..(MaxIngests + 1) |-> new_id("file", k)]

\* part.encode("utf-8") as a number
StringCode(s) == CHOOSE k \in 1..Len(SeededStrings) : SeededStrings[k] = s

RECURSIVE PiecesCode(_)
PiecesCode(text) ==
    IF text = <<>> THEN 0
    ELSE (PiecesCode(Tail(text)) * 37 + StringCode(Head(text))) % SeedSpace

\* The text of a chunk as a number: a paragraph of a document, or a pair of
\* sentences of the text generated for a file.
ChunkCode(text) ==
    IF DOMAIN text = {"str"} THEN PiecesCode(text.str)
    ELSE (text.blob.words * 41 + text.pair * 3 + 1) % SeedSpace

_Chunk(text, source_id, chunk_index, metadata) ==
    [text |-> text, source_id |-> source_id, chunk_index |-> chunk_index,
     metadata |-> metadata]

RECURSIVE DocumentChunks(_)
\* The chunks of the documents of a store, in its order.
DocumentChunks(store) ==
    IF store = <<>> THEN <<>>
    ELSE LET doc_id == Head(store)[1]
             doc == Head(store)[2]
             paragraphs == Paragraphs(doc.text)
         IN  [i \in 1..Len(paragraphs) |->
                 _Chunk([str |-> paragraphs[i]], doc_id, i - 1, doc.metadata)]
             \o DocumentChunks(Tail(store))

\* The number of sentences of the text generated for a file.
FileSentences == 6

RECURSIVE FileChunks(_, _)
\* The chunks of the files of a store: a pair of sentences each.
FileChunks(pipeline_id, store) ==
    IF store = <<>> THEN <<>>
    ELSE LET pf_id == Head(store)[1]
             pf == Head(store)[2]
             source_id == IF pf.file_id # None /\ pf.file_id # Some("")
                          THEN pf.file_id[1] ELSE pf_id
             seed == combined_seed(StringCode(pipeline_id), StringCode(source_id))
             file_text == generate_text_blob(seed, FileSentences)
         IN  [i \in 1..((FileSentences + 1) \div 2) |->
                 _Chunk([blob |-> file_text, pair |-> i - 1], source_id, i - 1,
                        [file_name |-> pf.name, file_id |-> pf.file_id])]
             \o FileChunks(pipeline_id, Tail(store))

\* (seed % 5000) / 10000 above a half, in ten-thousandths
Score(query, chunk) ==
    5000 + (combined_seed(StringCode(query), ChunkCode(chunk.text)) % 5000)

RECURSIVE SortByScore(_)
\* scored.sort(key=score, reverse=True): a stable sort, the highest first
SortByScore(scored) ==
    IF scored = <<>> THEN <<>>
    ELSE LET best == CHOOSE i \in 1..Len(scored) :
                        /\ \A j \in 1..Len(scored) : scored[j].score <= scored[i].score
                        /\ \A j \in 1..(i - 1) : scored[j].score < scored[i].score
             rest == [j \in 1..(Len(scored) - 1) |->
                         IF j < best THEN scored[j] ELSE scored[j + 1]]
         IN  <<scored[best]>> \o SortByScore(rest)

\* FakePipelinesNamespace._build_retrieval_nodes, the fresh id of a node
\* left out
_build_retrieval_nodes(ns, pipeline_id, query, top_k) ==
    LET documents == IF ns._documents[pipeline_id] = None THEN <<>>
                     ELSE ns._documents[pipeline_id][1]
        pipeline_files == IF ns._files[pipeline_id] = None THEN <<>>
                          ELSE ns._files[pipeline_id][1]
        chunks == DocumentChunks(documents) \o FileChunks(pipeline_id, pipeline_files)
        scored == [i \in 1..Len(chunks) |->
                      [score |-> Score(query, chunks[i]), chunk |-> chunks[i]]]
        sorted_chunks == SortByScore(scored)
        selected == SubSeq(sorted_chunks, 1, Min(top_k, Len(sorted_chunks)))
    IN  [i \in 1..Len(selected) |->
            [node |-> [text |-> selected[i].chunk.text,
                       extra_info |-> selected[i].chunk.metadata],
             score |-> selected[i].score]]

\* POST /api/v1/pipelines/{pipeline_id}/retrieve
_handle_retrieve ==
    /\ \E pipeline_id \in PipelineIdSpace, query \in Queries, k \in TopKs :
          pipeline_call' =
              IF pipelines._pipelines[pipeline_id] = None
              THEN PipelineNotFound("retrieve", pipeline_id)
              ELSE LET top_k == IF k = None \/ k = Some(0) THEN 3 ELSE k[1]
                   IN  PipelineCalled("retrieve", pipeline_id, 200,
                           [pipeline_id |-> pipeline_id,
                            retrieval_nodes |->
                                _build_retrieval_nodes(pipelines, pipeline_id,
                                                       query, top_k)])
    /\ UNCHANGED <<pipelines, except_pipelines>>

\* ----------------------------------------------------- extract namespace

\* FakeExtractNamespace.__init__: the dicts are the lists of their (key,
\* value) pairs in the order of insertion.
NoExtract ==
    [_jobs |-> <<>>, _runs |-> <<>>, _agents |-> <<>>, _agents_by_name |-> <<>>,
     _run_stubs |-> <<>>, _agent_run_stubs |-> <<>>, ids_made |-> 0,
     stubs_made |-> 0]

NoExtractCall == [op |-> "none"]

\* context.matches(matcher), for any context and matcher
Matches ==
    /\ \E context \in Contexts, matcher \in Matchers :
          extract_call' = [op |-> "matches", context |-> context,
                           matcher |-> matcher,
                           result |-> matches(context, matcher)]
    /\ UNCHANGED <<extract, except_extract>>

\* Stubs registered and stateless runs made, at most.
MaxStubs == 2
MaxJobs == 2

\* The matchers, data and status the stubs of the runs are registered with.
StubMatchers ==
    {None,
     Some([AnyRequest EXCEPT !.file = Some(FileMatcher(Some("a.pdf"), None, None))]),
     Some([AnyRequest EXCEPT !.schema = Some(SchemaMatcher(None, Some(schema_hash(Contact))))]),
     Some([AnyRequest EXCEPT !.predicate = Some("has_project")])}

StubData == {None, Some([str |-> generate_text_blob(7, 1)])}

StubStatuses == {None, Some("ERROR")}

\* The stateless runs asked for: an inline file and a schema, with or
\* without a project_id in the URL.
RunRequests ==
    {[file |-> [content |-> CHOOSE c \in Contents : TRUE, filename |-> f],
      data_schema |-> d, project_id |-> p] :
        f \in {None, Some("a.pdf")}, d \in {Receipt, Contact},
        p \in {None, Some("proj-other")}}

\* ExtractRunStub; serial tells the stubs apart: the number of stub_run
\* calls made when it was registered.
ExtractRunStub(matcher, data, job_status, once, serial) ==
    [matcher |-> matcher, data |-> data, status |-> job_status,
     job_status |-> job_status, once |-> once, serial |-> serial]

\* FakeExtractNamespace.stub_run
stub_run ==
    /\ extract.stubs_made < MaxStubs
    /\ \E matcher \in StubMatchers, data \in StubData, job_status \in StubStatuses,
          once \in BOOLEAN :
          extract' = [extract EXCEPT
                         !._run_stubs = Append(@, ExtractRunStub(matcher, data,
                                                   job_status, once,
                                                   extract.stubs_made + 1)),
                         !.stubs_made = @ + 1]
    /\ extract_call' = [op |-> "stub_run"]
    /\ UNCHANGED except_extract

\* list.pop(index)
pop(list, index) ==
    [i \in 1..(Len(list) - 1) |-> IF i < index THEN list[i] ELSE list[i + 1]]

\* _pop_stub that leaves the stub it returns in the list.
_pop_stub_without_pop(stubs, context) ==
    LET matching == {i \in 1..Len(stubs) : matches(context, stubs[i].matcher)}
    IN  IF matching = {} THEN [stub |-> None, stubs |-> stubs]
        ELSE LET index == CHOOSE i \in matching : \A j \in matching : i <= j
             IN  [stub |-> Some(stubs[index]), stubs |-> stubs]

\* FakeExtractNamespace._pop_stub: the stub returned and the list left.
_pop_stub(stubs, context) ==
    LET matching == {i \in 1..Len(stubs) : matches(context, stubs[i].matcher)}
    IN  IF matching = {} THEN [stub |-> None, stubs |-> stubs]
        ELSE LET index == CHOOSE i \in matching : \A j \in matching : i <= j
             IN  [stub |-> Some(stubs[index]),
                  stubs |-> IF stubs[index].once THEN pop(stubs, index) ELSE stubs]

\* FakeExtractNamespace._extract_file_info for a payload with "file": the
\* file is not stored, its id is new.
_extract_file_info(request, file_id) ==
    [file |-> [id |-> file_id,
               name |-> IF request.file.filename = None THEN "inline-" \o file_id
                        ELSE request.file.filename[1],
               project_id |-> IF request.project_id = None THEN default_project_id
                              ELSE request.project_id[1]],
     content |-> request.file.content,
     sha256 |-> fingerprint_file(request.file.content, request.file.filename)]

\* The context _handle_stateless_run hands to the stubs.
StatelessContext(request, file_info) ==
    RequestContext([project_id |-> request.project_id], Some(file_info.file.id),
                   Some(file_info.file.name), Some(file_info.sha256),
                   Some(schema_hash(request.data_schema)), None,
                   Some(file_info.file.project_id), Some(default_organization_id))

\* ExtractJob(id, file, extraction_agent, status, error); stub is not in
\* the code: the serial of the stub applied, 0 for none.
ExtractJob(job_id, file, agent_id, job_status, error, stub) ==
    [id |-> job_id, file |-> file, extraction_agent |-> agent_id,
     status |-> job_status, error |-> error, stub |-> stub]

\* FakeExtractNamespace._create_job_and_run: the namespace with the job and
\* the run stored under new ids; stub is the serial of the stub applied.
_create_job_and_run(namespace, agent_id, data_schema, file, job_status, run_status, data, error, stub) ==
    LET job_id == new_id("job", namespace.ids_made + 1)
        run_id == new_id("run", namespace.ids_made + 2)
        run == [id |-> run_id, job_id |-> job_id, file |-> file,
                extraction_agent_id |-> agent_id, status |-> run_status,
                data_schema |-> schema_hash(data_schema), data |-> data,
                error |-> error]
        job == ExtractJob(job_id, file, agent_id, job_status, error, stub)
    IN  [namespace EXCEPT
            !._jobs = DictPut(@, job_id, [job |-> job, run |-> run]),
            !._runs = DictPut(@, run_id, run),
            !.ids_made = @ + 2]

\* POST api/v1/extraction/run with an inline file, the stubs registered
\* taken into account.
handle_stateless_run ==
    /\ Len(extract._jobs) < MaxJobs
    /\ \E request \in RunRequests :
          LET file_info == _extract_file_info(request,
                                              new_id("file", extract.ids_made + 1))
              agent_id == new_id("agent", extract.ids_made + 2)
              context == StatelessContext(request, file_info)
              popped == _pop_stub(extract._run_stubs, context)
              stub == popped.stub
              generated == _generate_run_data(request.data_schema,
                                              file_info.sha256, now)
              job_status == IF stub # None /\ stub[1].job_status # None
                            THEN stub[1].job_status[1] ELSE "SUCCESS"
              run_status == IF stub # None /\ stub[1].status # None
                            THEN stub[1].status[1] ELSE "SUCCESS"
              run_data == IF stub # None /\ stub[1].data # None
                          THEN stub[1].data[1] ELSE generated
              made == [extract EXCEPT !._run_stubs = popped.stubs,
                                      !.ids_made = @ + 2]
          IN  /\ extract' = _create_job_and_run(
                                made, agent_id, request.data_schema,
                                file_info.file, job_status, run_status, run_data,
                                None, IF stub = None THEN 0 ELSE stub[1].serial)
              /\ extract_call' = [op |-> "run", context |-> context,
                                  stub |-> stub, generated |-> generated]
    /\ UNCHANGED except_extract

\* Agents created, at most.
MaxAgents == 2

\* The names and schemas agents are created with, the ids requests name.
AgentNames == {"alpha", "beta"}

AgentSchemas == {Receipt, Contact}

AgentIdSpace == {new_id("agent", k) : k \in 1..(2 * MaxAgents)} \cup {"agent_x"}

\* dict.get(key): None when the key is missing
DictGet(dict, key) ==
    IF \E i \in 1..Len(dict) : dict[i][1] = key
    THEN Some((CHOOSE pair \in Range(dict) : pair[1] = key)[2])
    ELSE None

\* dict.pop(key, None): the dict left
DictPop(dict, key) == SelectSeq(dict, LAMBDA pair : pair[1] # key)

\* list(dict.values())
DictValues(dict) == [i \in 1..Len(dict) |-> dict[i][2]]

json_response(payload, status_code) == [status_code |-> status_code, body |-> payload]

AgentNotFound == json_response([detail |-> "Agent not found"], 404)

\* ExtractAgent(id, name, data_schema, project_id)
ExtractAgent(agent_id, name, data_schema, project_id) ==
    [id |-> agent_id, name |-> name, data_schema |-> data_schema,
     project_id |-> project_id]

\* FakeExtractNamespace._build_ephemeral_agent with the schema of the
\* default agent; the id is new at each call and is stored nowhere.
_build_ephemeral_agent ==
    ExtractAgent("agent_new", "stateless-agent",
                 [type |-> "object", properties |-> <<>>], default_project_id)

\* POST /api/v1/extraction/extraction-agents
_handle_create_agent ==
    /\ Len(extract._agents) < MaxAgents
    /\ extract.ids_made < 2 * MaxAgents
    /\ \E name \in AgentNames, data_schema \in AgentSchemas :
          LET agent_id == new_id("agent", extract.ids_made + 1)
              agent == ExtractAgent(agent_id, name, data_schema, default_project_id)
          IN  /\ extract' = [extract EXCEPT
                                !._agents = DictPut(@, agent_id, agent),
                                !._agents_by_name = DictPut(@, name, agent_id),
                                !.ids_made = @ + 1]
              /\ extract_call' = [op |-> "create_agent", agent_id |-> agent_id,
                                  response |-> json_response(agent, 200)]
    /\ UNCHANGED except_extract

\* PATCH /api/v1/extraction/extraction-agents/{agent_id}
_handle_update_agent ==
    /\ \E agent_id \in AgentIdSpace, data_schema \in AgentSchemas :
          IF DictGet(extract._agents, agent_id) = None
          THEN /\ extract' = extract
               /\ extract_call' = [op |-> "update_agent", agent_id |-> agent_id,
                                   response |-> AgentNotFound]
          ELSE LET agent == DictGet(extract._agents, agent_id)[1]
                   updated == [agent EXCEPT !.data_schema = data_schema]
               IN  /\ extract' = [extract EXCEPT
                                     !._agents = DictPut(@, agent_id, updated)]
                   /\ extract_call' = [op |-> "update_agent", agent_id |-> agent_id,
                                       response |-> json_response(updated, 200)]
    /\ UNCHANGED except_extract

\* self._agents_by_name.pop(agent.name, None)
forget_name(index, agent) == DictPop(index, agent.name)

\* DELETE /api/v1/extraction/extraction-agents/{agent_id}
_handle_delete_agent ==
    /\ \E agent_id \in AgentIdSpace :
          LET agent == DictGet(extract._agents, agent_id)
          IN  /\ extract' =
                    [extract EXCEPT
                        !._agents = DictPop(@, agent_id),
                        !._agents_by_name =
                            IF agent = None THEN @ ELSE forget_name(@, agent[1])]
              /\ extract_call' = [op |-> "delete_agent", agent_id |-> agent_id,
                                  response |-> json_response(<<>>, 200)]
    /\ UNCHANGED except_extract

\* FakeExtractNamespace._handle_get_agent
_handle_get_agent(namespace, path) ==
    LET agent == DictGet(namespace._agents, path[Len(path)])
    IN  IF agent = None THEN AgentNotFound ELSE json_response(agent[1], 200)

\* FakeExtractNamespace._handle_get_agent_by_name; self._agents[agent_id]
\* raises KeyError for an id that is not stored.
_handle_get_agent_by_name(namespace, path) ==
    LET agent_id == DictGet(namespace._agents_by_name, path[Len(path)])
    IN  IF agent_id = None THEN AgentNotFound
        ELSE IF DictGet(namespace._agents, agent_id[1]) = None
        THEN json_response([raised |-> "KeyError"], 500)
        ELSE json_response(DictGet(namespace._agents, agent_id[1])[1], 200)

\* FakeExtractNamespace._handle_list_agents, include_default not given
_handle_list_agents(namespace, path) ==
    json_response(DictValues(namespace._agents), 200)

\* FakeExtractNamespace._handle_get_default_agent
_handle_get_default_agent(namespace, path) ==
    IF namespace._agents # <<>>
    THEN json_response(namespace._agents[1][2], 200)
    ELSE json_response(_build_ephemeral_agent, 200)

\* The GET routes of the agents in the order register() adds them: the
\* path after /api/v1/extraction/, a parameter written {}.
AgentGetRoutes ==
    << [path |-> <<"extraction-agents", "{}">>, handler |-> "_handle_get_agent"],
       [path |-> <<"extraction-agents", "by-name", "{}">>,
        handler |-> "_handle_get_agent_by_name"],
       [path |-> <<"extraction-agents">>, handler |-> "_handle_list_agents"],
       [path |-> <<"extraction-agents", "default">>,
        handler |-> "_handle_get_default_agent"] >>

\* The paths of the GET requests.
AgentGetPaths ==
    {<<"extraction-agents">>, <<"extraction-agents", "default">>}
    \cup {<<"extraction-agents", agent_id>> : agent_id \in AgentIdSpace}
    \cup {<<"extraction-agents", "by-name", name>> : name \in AgentNames \cup {"gamma"}}

\* FakeLlamaCloudServer._register_route and _compile_regex: a path with a
\* parameter is the regex in which {x} is [^/]+, any other the exact URL.
RouteMatches(route, path) ==
    /\ Len(route.path) = Len(path)
    /\ \A i \in 1..Len(path) : route.path[i] = "{}" \/ route.path[i] = path[i]

\* The router takes the first route, in the order of registration, that
\* matches the request; none for a request no route matches.
resolve(routes, path) ==
    LET matching == {i \in 1..Len(routes) : RouteMatches(routes[i], path)}
    IN  IF matching = {} THEN "none"
        ELSE routes[CHOOSE i \in matching : \A j \in matching : i <= j].handler

\* A GET request of the agents, answered by the handler the router finds.
handle_get_request ==
    /\ \E path \in AgentGetPaths :
          LET handler == resolve(AgentGetRoutes, path)
              response ==
                  CASE handler = "_handle_get_agent" ->
                          _handle_get_agent(extract, path)
                    [] handler = "_handle_get_agent_by_name" ->
                          _handle_get_agent_by_name(extract, path)
                    [] handler = "_handle_list_agents" ->
                          _handle_list_agents(extract, path)
                    [] handler = "_handle_get_default_agent" ->
                          _handle_get_default_agent(extract, path)
                    [] OTHER -> json_response([detail |-> "not mocked"], 0)
          IN  extract_call' = [op |-> "GET", path |-> path, handler |-> handler,
                               response |-> response]
    /\ UNCHANGED <<extract, except_extract>>

\* AgentRunStub(agent_id, matcher, job_status, run_status, error, once)
AgentRunStub(agent_id, matcher, job_status, once, serial) ==
    [agent_id |-> agent_id, matcher |-> matcher, job_status |-> job_status,
     run_status |-> job_status, once |-> once, serial |-> serial]

\* Stubs of agent runs registered, at most.
MaxAgentStubs == 1

\* FakeExtractNamespace.stub_agent_run
stub_agent_run ==
    /\ extract.stubs_made < MaxAgentStubs
    /\ \E agent_id \in {new_id("agent", 1)}, job_status \in {Some("ERROR")},
          once \in BOOLEAN :
          extract' = [extract EXCEPT
                         !._agent_run_stubs =
                             Append(@, AgentRunStub(agent_id, None, job_status, once,
                                                    extract.stubs_made + 1)),
                         !.stubs_made = @ + 1]
    /\ extract_call' = [op |-> "stub_agent_run"]
    /\ UNCHANGED except_extract

\* FakeExtractNamespace._pop_agent_stub: the stub returned and the list left.
_pop_agent_stub(stubs, agent_id, context) ==
    LET matching == {i \in 1..Len(stubs) :
                        /\ stubs[i].agent_id = agent_id
                        /\ matches(context, stubs[i].matcher)}
    IN  IF matching = {} THEN [stub |-> None, stubs |-> stubs]
        ELSE LET index == CHOOSE i \in matching : \A j \in matching : i <= j
             IN  [stub |-> Some(stubs[index]),
                  stubs |-> IF stubs[index].once THEN pop(stubs, index) ELSE stubs]

\* The file ids job requests name, and the lists of them batches name.
JobFileIds == {NewFileIds[k] : k \in 1..MaxFiles} \cup {"does-not-exist"}

FileIdLists ==
    {<<>>} \cup {<<a>> : a \in JobFileIds}
    \cup {<<a, b>> : a \in JobFileIds, b \in JobFileIds}

\* The stub _handle_agent_job takes for the agent, and the stubs left.
PoppedAgentStub(namespace, agent_id) ==
    _pop_agent_stub(namespace._agent_run_stubs, agent_id,
                    RequestContext([project_id |-> None], None, None, None, None,
                                   None, None, None))

\* FakeExtractNamespace._handle_agent_job: the namespace it leaves.
agent_job_stored(namespace, stored_files, agent_id, file_id, clock) ==
    LET agent == DictGet(namespace._agents, agent_id)
        stored_file == stored_files[file_id]
    IN  IF agent = None \/ stored_file = None THEN namespace
        ELSE LET popped == PoppedAgentStub(namespace, agent_id)
                 stub == popped.stub
             IN  _create_job_and_run(
                     [namespace EXCEPT !._agent_run_stubs = popped.stubs],
                     agent_id, agent[1].data_schema,
                     [id |-> file_id, name |-> stored_file[1].name,
                      project_id |-> default_project_id],
                     IF stub # None /\ stub[1].job_status # None
                     THEN stub[1].job_status[1] ELSE "SUCCESS",
                     IF stub # None /\ stub[1].run_status # None
                     THEN stub[1].run_status[1] ELSE "SUCCESS",
                     _generate_run_data(agent[1].data_schema,
                                        stored_file[1].sha256, clock),
                     None, IF stub = None THEN 0 ELSE stub[1].serial)

\* FakeExtractNamespace._handle_agent_job: its response, the job as stored.
agent_job_response(namespace, stored_files, agent_id, file_id) ==
    LET agent == DictGet(namespace._agents, agent_id)
        stored_file == stored_files[file_id]
    IN  IF agent = None THEN AgentNotFound
        ELSE IF stored_file = None
        THEN json_response([detail |-> "File not found"], 404)
        ELSE LET stub == PoppedAgentStub(namespace, agent_id).stub
             IN  json_response(
                     ExtractJob(new_id("job", namespace.ids_made + 1),
                                [id |-> file_id, name |-> stored_file[1].name,
                                 project_id |-> default_project_id],
                                agent_id,
                                IF stub # None /\ stub[1].job_status # None
                                THEN stub[1].job_status[1] ELSE "SUCCESS",
                                None, IF stub = None THEN 0 ELSE stub[1].serial),
                     200)

RECURSIVE agent_job_batch(_, _, _, _, _, _)
\* FakeExtractNamespace._handle_agent_job_batch: the loop over file_ids
\* with the jobs collected so far.
agent_job_batch(namespace, stored_files, agent_id, file_ids, jobs, clock) ==
    IF file_ids = <<>>
    THEN [namespace |-> namespace, response |-> json_response(jobs, 200)]
    ELSE LET response == agent_job_response(namespace, stored_files, agent_id,
                                            Head(file_ids))
         IN  IF response.status_code # 200
             THEN [namespace |-> namespace, response |-> response]
             ELSE agent_job_batch(
                      agent_job_stored(namespace, stored_files, agent_id,
                                       Head(file_ids), clock),
                      stored_files, agent_id, Tail(file_ids),
                      Append(jobs, response.body), clock)

\* POST /api/v1/extraction/jobs
_handle_agent_job ==
    /\ Len(extract._jobs) < MaxJobs
    /\ \E agent_id \in {new_id("agent", 1), "agent_x"}, file_id \in JobFileIds :
          /\ extract' = agent_job_stored(extract, files._files, agent_id, file_id, now)
          /\ extract_call' = [op |-> "agent_job", agent_id |-> agent_id,
                              file_ids |-> <<file_id>>,
                              response |-> agent_job_response(
                                               extract, files._files, agent_id,
                                               file_id)]
    /\ UNCHANGED except_extract

\* POST /api/v1/extraction/jobs/batch
_handle_agent_job_batch ==
    /\ \E agent_id \in {new_id("agent", 1), "agent_x"}, file_ids \in FileIdLists :
          /\ Len(extract._jobs) + Len(file_ids) <= MaxJobs
          /\ LET done == agent_job_batch(extract, files._files, agent_id, file_ids,
                                         <<>>, now)
             IN  /\ extract' = done.namespace
                 /\ extract_call' = [op |-> "batch", agent_id |-> agent_id,
                                     file_ids |-> file_ids,
                                     response |-> done.response]
    /\ UNCHANGED except_extract

\* ------------------------------------------------- get_extraction_schema

\* Concurrent callers, calls made in all and failures of the agent lookup,
\* at most.
MaxCallers == 3
MaxCalls == 4
MaxFailures == 1

Callers == 1..MaxCallers

\* built is not in the code: it counts the calls of model_from_schema, of
\* get_extraction_schema and the lookups that raised, and keeps what the
\* calls returned.
NothingBuilt == [builds |-> 0, calls |-> 0, failures |-> 0, returned |-> {}]

\* A lock that lets every caller in.
locked_never(lock) == FALSE

\* asyncio.Lock.locked()
locked(lock) == lock # None

\* await get_extraction_schema(): a caller enters the function. Callers are
\* suspended between any two statements, which is more than the event loop
\* does: it switches tasks at an await only.
call_get_extraction_schema(c) ==
    /\ callers[c] = "idle"
    /\ built.calls < MaxCalls
    /\ callers' = [callers EXCEPT ![c] = "check"]
    /\ built' = [built EXCEPT !.calls = @ + 1]
    /\ UNCHANGED <<SCHEMA, _schema_lock, except_schema>>

\* if SCHEMA is not None: return SCHEMA
check(c) ==
    /\ callers[c] = "check"
    /\ IF SCHEMA # None
       THEN /\ callers' = [callers EXCEPT ![c] = "idle"]
            /\ built' = [built EXCEPT !.returned = @ \cup {SCHEMA}]
       ELSE /\ callers' = [callers EXCEPT ![c] = "acquire"]
            /\ built' = built
    /\ UNCHANGED <<SCHEMA, _schema_lock, except_schema>>

\* async with _schema_lock: the caller waits until the lock is free
acquire(c) ==
    /\ callers[c] = "acquire"
    /\ ~locked(_schema_lock)
    /\ _schema_lock' = Some(c)
    /\ callers' = [callers EXCEPT ![c] = "check_again"]
    /\ UNCHANGED <<SCHEMA, built, except_schema>>

\* if SCHEMA is not None: return SCHEMA, inside the lock
check_again(c) ==
    /\ callers[c] = "check_again"
    /\ IF SCHEMA # None
       THEN /\ callers' = [callers EXCEPT ![c] = "idle"]
            /\ built' = [built EXCEPT !.returned = @ \cup {SCHEMA}]
            /\ _schema_lock' = IF _schema_lock = Some(c) THEN None ELSE _schema_lock
       ELSE /\ callers' = [callers EXCEPT ![c] = "get_extract_agent"]
            /\ UNCHANGED <<built, _schema_lock>>
    /\ UNCHANGED <<SCHEMA, except_schema>>

\* agent = get_extract_agent(): the agent, or the ApiError of a lookup that
\* failed with another status than 404, which leaves the function and the
\* lock.
get_extract_agent(c) ==
    /\ callers[c] = "get_extract_agent"
    /\ \/ /\ callers' = [callers EXCEPT ![c] = "model_from_schema"]
          /\ UNCHANGED <<built, _schema_lock>>
       \/ /\ built.failures < MaxFailures
          /\ callers' = [callers EXCEPT ![c] = "idle"]
          /\ built' = [built EXCEPT !.failures = @ + 1]
          /\ _schema_lock' = IF _schema_lock = Some(c) THEN None ELSE _schema_lock
    /\ UNCHANGED <<SCHEMA, except_schema>>

\* SCHEMA = model_from_schema(agent.data_schema): create_model makes a new
\* class at each call.
model_from_schema(c) ==
    /\ callers[c] = "model_from_schema"
    /\ built.builds < MaxCalls
    /\ SCHEMA' = Some(built.builds + 1)
    /\ built' = [built EXCEPT !.builds = @ + 1]
    /\ callers' = [callers EXCEPT ![c] = "return"]
    /\ UNCHANGED <<_schema_lock, except_schema>>

\* return SCHEMA, and the end of the async with
return_schema(c) ==
    /\ callers[c] = "return"
    /\ built' = [built EXCEPT !.returned = @ \cup {SCHEMA}]
    /\ _schema_lock' = IF _schema_lock = Some(c) THEN None ELSE _schema_lock
    /\ callers' = [callers EXCEPT ![c] = "idle"]
    /\ UNCHANGED <<SCHEMA, except_schema>>

OtherInit ==
    /\ gen = NoGen
    /\ files = NoFiles
    /\ file_call = NoFileCall
    /\ server = NewServer(None)
    /\ union = NoUnion
    /\ parse = NoParse
    /\ parse_call = NoParseCall
    /\ pipelines = NoPipelines
    /\ pipeline_call = NoPipelineCall
    /\ extract = NoExtract
    /\ extract_call = NoExtractCall
    /\ SCHEMA = None
    /\ _schema_lock = None
    /\ callers = [c \in Callers |-> "idle"]
    /\ built = NothingBuilt

NoCall == [op |-> "none", req |-> <<>>, status_code |-> 0, body |-> <<>>]

Init ==
    /\ stored = <<>>
    /\ call = NoCall
    /\ runs = [r \in RunIds |-> IdleRun]
    /\ disk = [n \in FileNames |-> None]
    /\ now = 0
    /\ extract_runs = <<>>
    /\ OtherInit

\* The store under its mutating requests and gets by id.
Next ==
    \/ CreateData
    \/ UpdateData
    \/ DeleteDataById
    \/ DeleteDataByQuery
    \/ GetDataById

Spec == Init /\ [][Next]_vars

\* The store filled by creates and read by search.
NextSearch ==
    \/ CreateData
    \/ SearchData

SpecSearch == Init /\ [][NextSearch]_vars

\* The store filled by creates and read by aggregate.
NextAggregate ==
    \/ CreateData
    \/ AggregateData

SpecAggregate == Init /\ [][NextAggregate]_vars

\* The workflow run on a store that holds the agent data of the past.
InitWorkflow ==
    /\ stored \in PastStores
    /\ call = NoCall
    /\ runs = [r \in RunIds |-> IdleRun]
    /\ disk = [n \in FileNames |-> None]
    /\ now = 0
    /\ extract_runs = <<>>
    /\ OtherInit

NextWorkflow ==
    \E r \in RunIds :
        \/ StartRun(r)
        \/ run_file(r)
        \/ download_file(r)
        \/ process_file(r)
        \/ wait_for_extract_job(r)
        \/ get_extraction_job_result(r)
        \/ record_extracted_data_delete(r)
        \/ record_extracted_data_create(r)

SpecWorkflow == InitWorkflow /\ [][NextWorkflow]_vars

\* workflow.run(start_event=FileEvent(file_id=...)) while other runs are
\* under way: each run is a task of its own, and the tasks take turns at
\* their awaits.
StartOverlappingRun(r) ==
    /\ runs[r].status = "idle"
    /\ \A q \in RunIds : q < r => runs[q].status # "idle"
    /\ \E file_id \in FileIds :
          runs' = [runs EXCEPT ![r] =
                      [IdleRun EXCEPT !.status = "running",
                                      !.pending = Some(Event("FileEvent", <<file_id>>))]]
    /\ UNCHANGED <<stored, call, disk>>
    /\ UNCHANGED <<extract_vars, other_vars>>

NextOverlap ==
    \E r \in RunIds :
        \/ StartOverlappingRun(r)
        \/ run_file(r)
        \/ download_file(r)
        \/ process_file(r)
        \/ wait_for_extract_job(r)
        \/ get_extraction_job_result(r)
        \/ record_extracted_data_delete(r)
        \/ record_extracted_data_create(r)

SpecOverlap == InitWorkflow /\ [][NextOverlap]_vars

\* Stateless extraction runs, with time passing between them.
NextExtract == _handle_stateless_run \/ Tick

SpecExtract == Init /\ [][NextExtract]_vars

NextGenerate == GenerateValue

SpecGenerate == Init /\ [][NextGenerate]_vars

NextFiles ==
    \/ preload
    \/ read
    \/ _handle_generate_presigned_url
    \/ _handle_direct_upload
    \/ _handle_get_metadata
    \/ _handle_delete
    \/ _handle_read_content
    \/ _handle_presigned_upload
    \/ _handle_presigned_download

SpecFiles == Init /\ [][NextFiles]_vars

NextUploads ==
    \/ stub_upload
    \/ _handle_generate_presigned_url
    \/ _handle_get_metadata
    \/ _handle_delete
    \/ _handle_presigned_upload

SpecUploads == Init /\ [][NextUploads]_vars

NextServer == __init__ \/ Install \/ Uninstall \/ __enter__ \/ __exit__

SpecServer == Init /\ [][NextServer]_vars

NextUnion == CreateUnionSchema

SpecUnion == Init /\ [][NextUnion]_vars

\* Parse requests, on a server that has a preloaded file.
NextParse ==
    \/ preload
    \/ _handle_upload
    \/ _handle_file_id_source_url
    \/ _handle_job_result

SpecParse == Init /\ [][NextParse]_vars

\* Requests to the pipelines namespace.
NextPipelines ==
    \/ _handle_create
    \/ _handle_list
    \/ _handle_get
    \/ _handle_update
    \/ pipelines_handle_delete
    \/ _handle_get_status
    \/ _handle_create_documents
    \/ _handle_upsert_documents
    \/ _handle_upsert_files
    \/ _handle_retrieve

SpecPipelines == Init /\ [][NextPipelines]_vars

NextMatches == Matches

SpecMatches == Init /\ [][NextMatches]_vars

NextStubs == stub_run \/ handle_stateless_run

SpecStubs == Init /\ [][NextStubs]_vars

NextAgents ==
    \/ _handle_create_agent
    \/ _handle_update_agent
    \/ _handle_delete_agent
    \/ handle_get_request

SpecAgents == Init /\ [][NextAgents]_vars

NextJobs ==
    \/ preload
    \/ _handle_create_agent
    \/ stub_agent_run
    \/ _handle_agent_job
    \/ _handle_agent_job_batch

SpecJobs == Init /\ [][NextJobs]_vars

NextSchema ==
    \E c \in Callers :
       \/ call_get_extraction_schema(c)
       \/ check(c)
       \/ acquire(c)
       \/ check_again(c)
       \/ get_extract_agent(c)
       \/ model_from_schema(c)
       \/ return_schema(c)

SpecSchema == Init /\ [][NextSchema]_vars

\* ------------------------------------------------------------ claims

\* What a filter means: the values a clause accepts, none for an operator
\* outside the eight.
Accepted(cl) ==
    CASE cl.op = "gt" -> {v \in Values : v > cl.value}
      [] cl.op = "gte" -> {v \in Values : v >= cl.value}
      [] cl.op = "lt" -> {v \in Values : v < cl.value}
      [] cl.op = "lte" -> {v \in Values : v <= cl.value}
      [] cl.op = "eq" -> {cl.value} \cap Values
      [] cl.op = "ne" -> Values \ {cl.value}
      [] cl.op = "in" -> cl.values \cap Values
      [] cl.op = "nin" -> Values \ cl.values
      [] OTHER -> {}

Satisfies(data, filter) ==
    \A key \in DOMAIN filter :
        /\ key \in DOMAIN data
        /\ \/ /\ filter[key].isdict
              /\ \A cl \in filter[key].clauses : data[key] \in Accepted(cl)
           \/ /\ ~filter[key].isdict
              /\ data[key] = filter[key].value

\* An item is of the scope a request names.
OfScope(item, req) ==
    /\ item.collection = req.collection
    /\ item.deployment_name = req.deployment_name

\* An item is one a request with a filter selects.
Selected(item, req) ==
    /\ OfScope(item, req)
    /\ req.filter # None
    /\ Satisfies(item.data, req.filter[1])

IdsOf(st) == {st[i].id : i \in 1..Len(st)}

IsPrefix(s, t) == Len(s) =< Len(t) /\ \A i \in 1..Len(s) : s[i] = t[i]

Errors(stream) == {i \in 1..Len(stream) : stream[i].level = "error"}

\* The items of the workflow's collection and deployment with a file hash.
ItemsOfHash(h) ==
    {i \in 1..Len(stored) :
        /\ OfScope(stored[i], WorkflowScope)
        /\ "file_hash" \in DOMAIN stored[i].data
        /\ stored[i].data.file_hash = h}

\* The run ended in the try block of download_file or of
\* get_extraction_job_result.
FailedInTry(run) ==
    /\ run.status = "failed"
    /\ run.error # None
    /\ \/ /\ run.error[1].step = "download_file"
          /\ run.error[1].exc \in {"IndexError", "HTTPError"}
       \/ /\ run.error[1].step = "get_extraction_job_result"
          /\ run.error[1].exc = "Exception"

\* C1: in every run started by a FileEvent the steps run in the order
\* run_file, download_file, process_file, wait_for_extract_job,
\* get_extraction_job_result, record_extracted_data, each after the one
\* before it has completed and none twice, and the StopEvent is produced
\* only once record_extracted_data has created the item, with the id of
\* that item as its result.
C1_StepsRunInOrderAndStopWithTheItemId ==
    /\ [](\A r \in RunIds : IsPrefix(runs[r].log, StepOrder))
    /\ [][\A r \in RunIds :
             (runs[r].result = None /\ runs'[r].result # None) =>
                 /\ runs'[r].log = StepOrder
                 /\ runs'[r].status = "done"
                 /\ call'.op = "create_item"
                 /\ call'.status_code = 200
                 /\ runs'[r].result[1] = call'.body.id
                 /\ \E i \in 1..Len(stored') :
                       /\ stored'[i].id = runs'[r].result[1]
                       /\ OfScope(stored'[i], WorkflowScope)
                       /\ stored'[i].data = runs[r].pending[1].payload[1]]_vars

C1_Witness ==
    \E r \in RunIds :
        /\ runs[r].status = "done"
        /\ runs[r].result # None
        /\ runs[r].log = StepOrder

\* C2: once the workflow has completed one or more times, one run after the
\* other, on files of one content hash, the collection holds exactly one
\* item with that file hash (between the delete and the create of a run's
\* record_extracted_data it holds none).
C2_ReprocessingLeavesOneItemPerHash ==
    \A r \in RunIds :
        runs[r].status = "done" =>
            LET h == runs[r].state.file_hash[1]
                recording == {q \in RunIds : /\ runs[q].at = "create"
                                             /\ runs[q].state.file_hash = Some(h)}
            IN  IF recording = {} THEN Cardinality(ItemsOfHash(h)) = 1
                ELSE Cardinality(ItemsOfHash(h)) = 0

C2_Witness ==
    /\ \A r \in RunIds : runs[r].status = "done"
    /\ \A r \in RunIds : runs[r].state.file_hash = runs[1].state.file_hash
    /\ \E r \in RunIds : runs[r].state.file_id # runs[1].state.file_id
    /\ \E r \in RunIds : runs[r].deleted = Some(2)
    /\ Cardinality(ItemsOfHash(runs[1].state.file_hash[1])) = 1

\* C3: a failure in the try block of download_file or of
\* get_extraction_job_result (other than InvalidExtractionData) puts one
\* Status of level error on the stream and ends the run with the
\* exception: the step has run once, no step runs after it, and the run
\* has created and deleted no item.
C3_CaughtFailureIsReportedOnceAndEndsTheRun ==
    [][\A r \in RunIds :
          /\ runs[r].status = "failed" => runs'[r] = runs[r]
          /\ (runs[r].status = "running" /\ FailedInTry(runs'[r])) =>
                LET step == runs'[r].error[1].step
                IN  /\ runs'[r].stream = Append(runs[r].stream, Status("error", step))
                    /\ Cardinality(Errors(runs'[r].stream)) = 1
                    /\ runs'[r].log = Append(runs[r].log, step)
                    /\ step \notin {runs[r].log[i] : i \in 1..Len(runs[r].log)}
                    /\ runs'[r].pending = None
                    /\ runs'[r].result = None
                    /\ runs'[r].deleted = None
                    /\ runs'[r].item = None
                    /\ stored' = stored]_vars

C3_Witness ==
    /\ \E r \in RunIds : /\ FailedInTry(runs[r])
                         /\ runs[r].error[1].step = "download_file"
    /\ \E r \in RunIds : /\ FailedInTry(runs[r])
                         /\ runs[r].error[1].step = "get_extraction_job_result"

\* C4: delete_by_query removes exactly the items of the requested collection
\* and deployment name that match the filter, returns their number as
\* deleted_count and leaves every other stored item in the store; without a
\* filter it removes nothing and returns 0.
C4_DeleteByQueryRemovesExactlyTheMatches ==
    [][call'.op = "delete" =>
          LET req == call'.req
              Kept(item) == ~Selected(item, req)
          IN  /\ stored' = SelectSeq(stored, Kept)
              /\ call'.body.deleted_count = Len(stored) - Len(stored')
              /\ req.filter = None =>
                    (stored' = stored /\ call'.body.deleted_count = 0)]_vars

\* C5: a created item gets the id hash_schema(data)[:7]; a get by the id of
\* a stored item that still holds the data it was created with (its data
\* hashes to its id) returns that item's data, collection and deployment
\* name; a get by an id no stored item has returns 404 "No data with ID".
C5_GetReturnsTheCreatedItem ==
    /\ call.op = "create_item" => call.body.id = hash_schema(call.req.data)
    /\ call.op = "get_item" =>
          IF call.req.item_id \in IdsOf(stored)
          THEN /\ call.status_code = 200
               /\ \A i \in 1..Len(stored) :
                     (/\ stored[i].id = call.req.item_id
                      /\ stored[i].id = hash_schema(stored[i].data))
                     => call.body = ItemBody(stored[i])
          ELSE /\ call.status_code = 404
               /\ call.body = NoData(call.req.item_id)

\* C6: search returns exactly the stored items of the requested collection
\* and deployment name that satisfy every condition of the filter (all of
\* them without a filter), in the order of the store, total_size being their
\* number; an item lacking a filtered key and a condition with an unknown
\* operator never match; search leaves the store as it is.
C6_SearchReturnsExactlyTheMatches ==
    [][call'.op = "search" =>
          LET req == call'.req
              Hit(item) ==
                  /\ OfScope(item, req)
                  /\ req.filter # None => Satisfies(item.data, req.filter[1])
              want == SelectSeq(stored, Hit)
              got == call'.body.items
          IN  /\ stored' = stored
              /\ call'.status_code = 200
              /\ got = [i \in 1..Len(want) |-> ItemBody(want[i])]
              /\ call'.body.total_size = Len(got)
              /\ req.filter # None =>
                    /\ \A i \in 1..Len(got) :
                          DOMAIN req.filter[1] \subseteq DOMAIN got[i].data
                    /\ (\E k \in DOMAIN req.filter[1] :
                           \E cl \in req.filter[1][k].clauses :
                               cl.op \notin OpNames) => got = <<>>]_vars

\* A search with a filter kept one of two stored items of its scope.
C6_Witness ==
    /\ call.op = "search"
    /\ call.req.filter # None
    /\ Len(stored) = 2
    /\ \A i \in 1..2 : OfScope(stored[i], call.req)
    /\ call.body.total_size = 1

\* C7: an update by id replaces only the data of the items with that id:
\* ids, collections, deployment names and positions stay, items of other
\* ids are untouched; for an id no stored item has it returns 404 and
\* changes nothing.
C7_UpdateReplacesOnlyData ==
    [][call'.op = "update_item" =>
          LET id == call'.req.item_id
              d == call'.req.data
          IN  IF id \in IdsOf(stored)
              THEN /\ call'.status_code = 200
                   /\ call'.body.id = id
                   /\ Len(stored') = Len(stored)
                   /\ \A i \in 1..Len(stored) :
                         /\ stored'[i].id = stored[i].id
                         /\ stored'[i].collection = stored[i].collection
                         /\ stored'[i].deployment_name = stored[i].deployment_name
                         /\ stored[i].id # id => stored'[i] = stored[i]
                         /\ stored[i].id = id =>
                               stored'[i].data =
                                   IF d # None THEN d[1] ELSE stored[i].data
              ELSE /\ call'.status_code = 404
                   /\ stored' = stored]_vars

\* An update gave an item new data beside an item of another id.
C7_Witness ==
    /\ call.op = "update_item"
    /\ call.status_code = 200
    /\ Len(stored) = 2
    /\ stored[1].id # stored[2].id
    /\ \E i \in 1..2 :
          /\ stored[i].id = call.req.item_id
          /\ stored[i].id # hash_schema(stored[i].data)

\* C8: a successful delete by id leaves no item with that id and keeps every
\* item of another id; while no stored item has an id, a get and a delete by
\* it return 404 and change nothing; an id that is not stored becomes stored
\* only by a create of an item with that id.
C8_DeletedIdStaysGoneUntilCreated ==
    [][/\ call'.op = "delete_item" =>
             LET id == call'.req.item_id
                 Other(item) == item.id # id
             IN  IF id \in IdsOf(stored)
                 THEN /\ call'.status_code = 200
                      /\ id \notin IdsOf(stored')
                      /\ stored' = SelectSeq(stored, Other)
                 ELSE /\ call'.status_code = 404
                      /\ stored' = stored
       /\ (call'.op = "get_item" /\ call'.req.item_id \notin IdsOf(stored)) =>
             (call'.status_code = 404 /\ stored' = stored)
       /\ \A id \in IdsOf(stored') \ IdsOf(stored) :
             call'.op = "create_item" /\ call'.body.id = id]_vars

\* A delete by id succeeded and left an item of another id in the store.
C8_Witness ==
    /\ call.op = "delete_item"
    /\ call.status_code = 200
    /\ Len(stored) = 1
    /\ stored[1].id # call.req.item_id

\* The items an aggregate request groups: those of its scope that pass its
\* filter.
Grouped(st, req) ==
    LET Hit(item) ==
            /\ OfScope(item, req)
            /\ req.filter # None => Satisfies(item.data, req.filter[1])
    IN  SelectSeq(st, Hit)

\* C9: aggregate returns, for each key k of group_by, one group per distinct
\* value of k among the grouped items that contain k, in order of first
\* appearance: first_item is the data of the earliest item of the group,
\* count is the number of items of the group when count is asked for and
\* null otherwise, total_size is the number of groups.
C9_AggregateGroupsAndCounts ==
    [][call'.op = "aggregate" =>
          LET req == call'.req
              rows == call'.body.items
              items == Grouped(stored, req)
              Members(k, v) ==
                  {i \in 1..Len(items) :
                      k \in DOMAIN items[i].data /\ items[i].data[k] = v}
              First(k, v) ==
                  CHOOSE i \in Members(k, v) : \A j \in Members(k, v) : i <= j
              keys == {req.group_by[i] : i \in 1..Len(req.group_by)}
          IN  /\ stored' = stored
              /\ call'.body.total_size = Len(rows)
              /\ \A r \in 1..Len(rows) :
                    LET k == rows[r].group_key.key
                        v == rows[r].group_key.value
                    IN  /\ k \in keys
                        /\ Members(k, v) # {}
                        /\ rows[r].first_item = items[First(k, v)].data
                        /\ rows[r].count =
                              IF req.count
                              THEN Some(Cardinality(Members(k, v)))
                              ELSE None
              /\ \A k \in keys : \A i \in 1..Len(items) :
                    k \in DOMAIN items[i].data =>
                        Cardinality({r \in 1..Len(rows) :
                            rows[r].group_key =
                                [key |-> k, value |-> items[i].data[k]]}) = 1
              /\ \A r1, r2 \in 1..Len(rows) :
                    (/\ r1 < r2
                     /\ rows[r1].group_key.key = rows[r2].group_key.key)
                    => First(rows[r1].group_key.key, rows[r1].group_key.value)
                       < First(rows[r2].group_key.key, rows[r2].group_key.value)]_vars

\* C10: two stateless extraction runs on the same file (same bytes and
\* name) with the same data schema return identical data, whatever lies
\* between them.
C10_StatelessRunsOnTheSameFileAgree ==
    \A i, j \in 1..Len(extract_runs) :
        (/\ extract_runs[i].file = extract_runs[j].file
         /\ extract_runs[i].data_schema = extract_runs[j].data_schema)
            => extract_runs[i].data = extract_runs[j].data

\* The Python type of a generated value.
PyType(value) == CHOOSE t \in DOMAIN value : TRUE

\* The first name of a type list that is not null, and the Python type of
\* the values of a JSON type.
FirstConcrete(type_list) ==
    CASE type_list = ObjectOrNull -> "object"
      [] type_list = ArrayOrNull -> "array"
      [] type_list = IntegerOrNull -> "integer"
      [] type_list = BooleanOrNull -> "boolean"
      [] type_list = StringOrInteger -> "string"
      [] OTHER -> "null"

PyTypeOf(json_type) ==
    CASE json_type = "object" -> "dict"
      [] json_type = "array" -> "list"
      [] json_type = "integer" -> "int"
      [] json_type = "number" -> "float"
      [] json_type = "boolean" -> "bool"
      [] json_type = "string" -> "str"
      [] OTHER -> "NoneType"

\* C11: for a schema whose type is a list of type names the generated value
\* is of the first type of the list that is not null (a dict with the
\* schema's properties for object), and None when the list holds only null.
C11_TypeListGivesFirstConcreteType ==
    ("type" \in DOMAIN gen.schema /\ gen.schema.type \in TypeLists
        /\ ~TooDeep(gen.depth)) =>
        LET want == PyTypeOf(FirstConcrete(gen.schema.type))
        IN  /\ PyType(gen.value) = want
            /\ want = "dict" =>
                  DOMAIN gen.value.dict =
                      {gen.schema.properties[i][1] :
                          i \in 1..Len(gen.schema.properties)}

RECURSIVE Nesting(_)
\* How many dicts with a child and lists of one item lie around the
\* innermost value.
Nesting(value) ==
    IF PyType(value) = "dict" /\ "child" \in DOMAIN value.dict
    THEN 1 + Nesting(value.dict.child)
    ELSE IF PyType(value) = "list" /\ Len(value.list) = 1
    THEN 1 + Nesting(value.list[1])
    ELSE 0

RECURSIVE Innermost(_)
Innermost(value) ==
    IF PyType(value) = "dict" /\ "child" \in DOMAIN value.dict
    THEN Innermost(value.dict.child)
    ELSE IF PyType(value) = "list" /\ Len(value.list) = 1
    THEN Innermost(value.list[1])
    ELSE value

Primitive(value) == PyType(value) \in {"int", "float", "str"}

\* The array levels among the levels first, first - 1, .. of a ChoiceChain
\* that a descent of steps levels passes.
ArraysPassed(first, steps) ==
    Cardinality({l \in (first - steps + 1)..first : l % 3 = 2})

\* C12: every recursive call of _generate_value is one deeper and a call
\* deeper than 8 returns a primitive without descending: from depth d the
\* value of a schema nested k levels follows the schema for min(k, 9 - d)
\* levels, and where the schema goes on at depth 9 an int, a float or a str
\* stands in its place.
C12_GenerationStopsAtDepthNine ==
    /\ TooDeep(gen.depth) => Primitive(gen.value)
    /\ \A k \in 0..MaxNesting :
          LET steps == IF gen.depth > 9 THEN 0 ELSE Min(k, 9 - gen.depth)
              cut == gen.depth + k >= 9
          IN  /\ gen.schema = Chain(k) =>
                    /\ Nesting(gen.value) = steps
                    /\ IF cut THEN Primitive(Innermost(gen.value))
                       ELSE Innermost(gen.value) = [dict |-> <<>>]
              /\ (k > 0 /\ gen.schema = ChoiceChain(k)) =>
                    /\ Nesting(gen.value) = ArraysPassed(k, steps)
                    /\ IF cut THEN Primitive(Innermost(gen.value))
                       ELSE PyType(Innermost(gen.value)) = "NoneType"

C12_Witness ==
    /\ gen.schema = Chain(MaxNesting)
    /\ gen.depth = 0
    /\ Nesting(gen.value) = 9
    /\ Primitive(Innermost(gen.value))

\* C13: for a file preloaded or uploaded with bytes B, the content URL of
\* its id is <download base>/files/<id>?token=fake, and a download from it,
\* like files.read(id), returns exactly B, whatever other requests were
\* made since that did not delete or upload the id again.
C13_DownloadReturnsTheUploadedBytes ==
    \A file_id \in RequestFileIds :
        (files.given[file_id] # None /\ file_call.file_id = file_id) =>
            /\ file_call.op = "read_content" =>
                  /\ file_call.status_code = 200
                  /\ file_call.body =
                        [base |-> download_base_url, path |-> "files",
                         file_id |-> file_id, query |-> <<"token", "fake">>]
            /\ file_call.op = "download" =>
                  /\ file_call.status_code = 200
                  /\ file_call.body = [content |-> files.given[file_id][1]]
            /\ file_call.op = "read" =>
                  file_call.body = [content |-> files.given[file_id][1]]

\* C14: a request for the metadata, the content URL or the download of a
\* file id that is not in the file store returns 404 and adds nothing to
\* the store.
C14_AbsentFileGives404 ==
    [][(/\ file_call'.op \in {"get", "read_content", "download"}
        /\ files._files[file_call'.file_id] = None) =>
            /\ file_call'.status_code = 404
            /\ files' = files]_vars

\* C15: _installed is true exactly when the router is entered, and it is
\* entered once at most: install on an installed server does not enter it
\* again, uninstall on a server that is not installed changes nothing, the
\* end of a with-block leaves the server uninstalled, and every namespace
\* is registered once at most, by the first install.
C15_InstalledIffRouterEntered ==
    /\ [](/\ server.router.entered = (IF server._installed THEN 1 ELSE 0)
          /\ \A n \in KnownNamespaces : server.router.registered[n] =< 1
          /\ ~server._registered =>
                \A n \in KnownNamespaces : server.router.registered[n] = 0)
    /\ [][/\ (server._installed /\ server'._installed) =>
                server'.router.entered = server.router.entered
          /\ (~server._installed /\ server'.serial = server.serial
                /\ ~server'._installed) => server' = server
          /\ server._registered /\ server'.serial = server.serial =>
                server'.router.registered = server.router.registered]_vars

C15_Witness ==
    /\ server._installed
    /\ server._registered
    /\ server.namespaces = Some({"parse", "extract"})
    /\ server.router.registered["parse"] = 1

\* C16: an installed server built with namespaces=N has the routes of
\* exactly the namespaces named in N (in lower case), for N any of files,
\* extract, parse, classify, agent_data, pipelines, sheets and split.
C16_OnlyRequestedNamespacesRegistered ==
    (server._registered /\ server.namespaces # None
        /\ server.namespaces # Some({})) =>
        {r.namespace : r \in server.router.routes} \ {""}
            = {lower(name) : name \in server.namespaces[1]}

\* The required names of the k-th input schema of the last call.
RequiredIn(k) ==
    IF "required" \in DOMAIN union.schemas[k][2]
    THEN {union.schemas[k][2].required[i] :
            i \in 1..Len(union.schemas[k][2].required)}
    ELSE {}

\* C17: required is the discriminator field followed by the sorted names of
\* the fields that every input schema requires, the discriminator left out:
\* a field one schema does not require is not required, the discriminator
\* stands once, and without a common required field or without input
\* schemas only the discriminator is required.
C17_RequiredIsDiscriminatorThenCommonFields ==
    LET required == union.result.required
        common == IF union.schemas = <<>> THEN {}
                  ELSE {name \in Range(FieldNames) \ {union.discriminator_field} :
                          \A k \in 1..Len(union.schemas) : name \in RequiredIn(k)}
    IN  /\ required[1] = union.discriminator_field
        /\ {required[i] : i \in 2..Len(required)} = common
        /\ Len(required) = 1 + Cardinality(common)
        /\ \A i, j \in 2..Len(required) :
              i < j => \E a, b \in 1..Len(FieldNames) :
                          a < b /\ FieldNames[a] = required[i]
                                /\ FieldNames[b] = required[j]

C17_Witness ==
    /\ Len(union.schemas) = 2
    /\ Len(union.result.required) = 2
    /\ \E k \in 1..2 : RequiredIn(k) \ RequiredIn(3 - k) # {}
    /\ \E k \in 1..2 : union.discriminator_field \in RequiredIn(k)

\* The definition of a property in the k-th input schema, when it has one.
DefinedIn(k, name) ==
    IF "properties" \in DOMAIN union.schemas[k][2]
    THEN {union.schemas[k][2].properties[i][2] :
            i \in {i \in 1..Len(union.schemas[k][2].properties) :
                      union.schemas[k][2].properties[i][1] = name}}
    ELSE {}

\* C18: properties holds the discriminator field and every property of
\* every input schema but the discriminator; a name several schemas define
\* has the definition of the first of them in input order; the
\* discriminator is the generated string enum of the schema names in input
\* order, whatever property of that name the inputs have.
C18_PropertiesAreFirstDefinitionsPlusDiscriminator ==
    LET properties == union.result.properties
        names == {properties[i][1] : i \in 1..Len(properties)}
        inputs == UNION {{name \in Range(FieldNames) : DefinedIn(k, name) # {}} :
                            k \in 1..Len(union.schemas)}
    IN  /\ names = {union.discriminator_field} \cup inputs
        /\ Len(properties) = Cardinality(names)
        /\ \A i \in 1..Len(properties) :
              IF properties[i][1] = union.discriminator_field
              THEN properties[i][2] =
                      [type |-> "string",
                       enum |-> [k \in 1..Len(union.schemas) |-> union.schemas[k][1]],
                       description |-> "Type of document that was extracted"]
              ELSE LET first == CHOOSE k \in 1..Len(union.schemas) :
                                  /\ DefinedIn(k, properties[i][1]) # {}
                                  /\ \A l \in 1..(k - 1) :
                                        DefinedIn(l, properties[i][1]) = {}
                   IN  properties[i][2] \in DefinedIn(first, properties[i][1])

C18_Witness ==
    /\ Len(union.schemas) = 2
    /\ \E name \in Range(FieldNames) \ {union.discriminator_field} :
          /\ DefinedIn(1, name) # {}
          /\ DefinedIn(2, name) # {}
          /\ DefinedIn(1, name) # DefinedIn(2, name)
    /\ \E k \in 1..2 : DefinedIn(k, union.discriminator_field) # {}

\* C19: a get of a stored parse job returns as non-null, among text,
\* markdown and items, exactly the sections its expand names (items alone
\* without an expand), each as the job has it, and leaves the stored job as
\* it is, so that a response depends on its own expand only; a get of an
\* unknown job id returns 404.
C19_GetReturnsTheExpandedSectionsOnly ==
    [][parse_call'.op = "job_result" =>
          LET job_id == parse_call'.job_id
              expand == parse_call'.expand
              named == {expand[i] : i \in 1..Len(expand)}
              want(section) == IF expand = <<>> THEN section = "items"
                               ELSE section \in named
              body == parse_call'.body
          IN  /\ parse' = parse
              /\ IF parse._jobs[job_id] = None
                 THEN parse_call'.status_code = 404
                 ELSE LET job == parse._jobs[job_id][1]
                      IN  /\ parse_call'.status_code = 200
                          /\ body.job = job.job
                          /\ job.text # None /\ job.markdown # None
                               /\ job.items # None
                          /\ body.text = IF want("text") THEN job.text ELSE None
                          /\ body.markdown =
                                IF want("markdown") THEN job.markdown ELSE None
                          /\ body.items = IF want("items") THEN job.items ELSE None]_vars

C19_Witness ==
    /\ parse_call.op = "job_result"
    /\ parse_call.status_code = 200
    /\ parse_call.expand = <<"text", "markdown">>
    /\ parse_call.body.items = None
    /\ parse_call.body.text # None
    /\ parse._jobs[parse_call.job_id][1].items # None
    /\ parse.ids_made = 2

\* The pipelines one of the three stores of the namespace has an entry for.
StoredIn(store) == {p \in PipelineIdSpace : store[p] # None}

\* The requests that answer 404 for a pipeline that does not exist.
NeedsPipeline ==
    {"get", "update", "status", "retrieve", "create_documents",
     "upsert_documents", "upsert_files"}

\* C20: after any sequence of pipeline create, update, delete,
\* document-ingest and file-ingest requests the document store and the file
\* store have an entry for exactly the pipelines that exist; a delete
\* leaves no entry of its pipeline in any of the three stores; and a get,
\* update, status, retrieve or ingest request for a pipeline id that does
\* not exist returns 404 and stores nothing.
C20_StoresHoldExactlyThePipelinesThatExist ==
    /\ [](/\ StoredIn(pipelines._documents) = StoredIn(pipelines._pipelines)
          /\ StoredIn(pipelines._files) = StoredIn(pipelines._pipelines))
    /\ [][LET pipeline_id == pipeline_call'.pipeline_id
              Deleted ==
                  pipeline_call'.op = "delete" =>
                      /\ pipeline_id \notin StoredIn(pipelines'._pipelines)
                      /\ pipeline_id \notin StoredIn(pipelines'._documents)
                      /\ pipeline_id \notin StoredIn(pipelines'._files)
              NotFound ==
                  (/\ pipeline_call'.op \in NeedsPipeline
                   /\ pipeline_id \notin StoredIn(pipelines._pipelines)) =>
                      (pipeline_call'.status_code = 404 /\ pipelines' = pipelines)
          IN  Deleted /\ NotFound]_vars

\* A pipeline that had a document and a file ingested has been deleted, and
\* nothing of it is left.
C20_Witness ==
    /\ pipeline_call.op = "delete"
    /\ pipeline_call.pipeline_id = new_id("pipeline", 1)
    /\ pipelines.pipelines_made = 1
    /\ pipelines.docs_made >= 1
    /\ pipelines.pfs_made >= 1
    /\ StoredIn(pipelines._documents) = {}
    /\ StoredIn(pipelines._files) = {}

\* The run holds the event of a result that failed validation.
HoldsInvalid(run) ==
    /\ run.status = "running"
    /\ run.pending # None
    /\ run.pending[1].type = "ExtractedInvalidEvent"

C22_OverlappingRunsLeaveOneItemPerHash ==
    \A r \in RunIds, q \in RunIds :
        (/\ r # q
         /\ \A p \in RunIds : runs[p].status \in {"done", "failed"}
         /\ runs[r].status = "done"
         /\ runs[q].status = "done"
         /\ runs[r].state.file_hash = runs[q].state.file_hash) =>
            Cardinality(ItemsOfHash(runs[r].state.file_hash[1])) = 1

\* C24: RequestContext.matches(m) is true for m = None, and otherwise true
\* only if every criterion set in m holds for the request; a matcher with a
\* schema model and a predicate does not match a request its predicate
\* rejects.
C24_MatchNeedsEveryCriterion ==
    extract_call.op = "matches" =>
        IF extract_call.matcher = None THEN extract_call.result
        ELSE extract_call.result =>
                CriteriaHold(extract_call.context, extract_call.matcher)

\* The indexes of the stubs that match the context.
Matching(stubs, context) ==
    {i \in 1..Len(stubs) : matches(context, stubs[i].matcher)}

\* C23: a stateless run is answered by the earliest stub still registered
\* whose matcher matches; a once stub leaves the list when applied and is
\* applied to one request at most, a stub with once=False stays, the other
\* stubs keep their places, and a request no stub matches gets SUCCESS and
\* the generated data.
C23_EarliestMatchingStubIsApplied ==
    /\ [](\A i, j \in 1..Len(extract._jobs) :
             LET a == extract._jobs[i][2].job.stub
                 b == extract._jobs[j][2].job.stub
             IN  (i # j /\ a # 0 /\ a = b) =>
                    \E k \in 1..Len(extract._run_stubs) :
                        /\ extract._run_stubs[k].serial = a
                        /\ ~extract._run_stubs[k].once)
    /\ [][extract_call'.op = "run" =>
            LET before == extract._run_stubs
                after == extract'._run_stubs
                context == extract_call'.context
                stored_run == extract'._jobs[Len(extract'._jobs)][2]
                matching == Matching(before, context)
            IN  /\ Len(extract'._jobs) = Len(extract._jobs) + 1
                /\ IF matching = {}
                   THEN /\ extract_call'.stub = None
                        /\ after = before
                        /\ stored_run.job.status = "SUCCESS"
                        /\ stored_run.run.status = "SUCCESS"
                        /\ stored_run.run.data = extract_call'.generated
                   ELSE LET first == CHOOSE i \in matching :
                                         \A j \in matching : i <= j
                        IN  /\ extract_call'.stub = Some(before[first])
                            /\ stored_run.job.stub = before[first].serial
                            /\ after = IF before[first].once
                                       THEN SelectSeq(before, LAMBDA stub :
                                                stub.serial # before[first].serial)
                                       ELSE before
                            /\ before[first].data # None =>
                                  stored_run.run.data = before[first].data[1]
                            /\ before[first].job_status # None =>
                                  stored_run.job.status = before[first].job_status[1]
          ]_vars

\* Two stubs are registered, the first does not match the request and the
\* second, a once stub, does: it was applied and the first one is left.
C23_Witness ==
    /\ extract_call.op = "run"
    /\ extract.stubs_made = 2
    /\ extract_call.stub # None
    /\ extract_call.stub[1].serial = 2
    /\ extract_call.stub[1].once
    /\ Len(extract._run_stubs) = 1
    /\ extract._run_stubs[1].serial = 1
    /\ Len(extract._jobs) = 2
    /\ extract._jobs[1][2].job.stub = 0

\* C28: no file id is both pending and stored; a presigned URL makes its
\* id pending only; an upload no stub matches stores a pending id with the
\* bytes sent and ends its pending, or answers 404 and stores nothing for
\* an id that is not pending; an upload a stub matches stores nothing and
\* leaves pending as it was; delete removes the id from both.
C28_PendingAndStoredAreDisjoint ==
    /\ [](\A file_id \in RequestFileIds :
             files._pending[file_id] = None \/ files._files[file_id] = None)
    /\ [][LET file_id == file_call'.file_id
          IN  /\ file_call'.op = "generate_presigned_url" =>
                    /\ files._pending[file_id] = None
                    /\ files'._pending[file_id] # None
                    /\ files'._files = files._files
              /\ file_call'.op = "delete" =>
                    /\ files'._pending[file_id] = None
                    /\ files'._files[file_id] = None
              /\ file_call'.op = "presigned_upload" =>
                    \E content \in FileContents :
                       LET pending == files._pending[file_id]
                           matching == MatchingUploadStubs(
                                           files._upload_stubs,
                                           UploadContext(file_id, pending, content))
                       IN  IF matching # {}
                           THEN /\ files'._files = files._files
                                /\ files'._pending = files._pending
                                /\ file_call'.status_code \in UploadStatuses
                           ELSE IF pending = None
                           THEN /\ files' = files
                                /\ file_call'.status_code = 404
                           ELSE /\ files'._pending[file_id] = None
                                /\ files'._files[file_id] # None
                                /\ files'._files[file_id][1].content = content
                                /\ files'._files[file_id][1].name = pending[1].filename
                                /\ \A other \in RequestFileIds \ {file_id} :
                                      /\ files'._files[other] = files._files[other]
                                      /\ files'._pending[other] = files._pending[other]
                                /\ file_call'.status_code = 204
         ]_vars

\* An upload to a pending id was turned down by a stub and the id is still
\* pending, while the other id made was uploaded and is stored.
C28_Witness ==
    /\ file_call.op = "presigned_upload"
    /\ file_call.status_code = 413
    /\ files._pending[file_call.file_id] # None
    /\ files._files[file_call.file_id] = None
    /\ \E other \in RequestFileIds :
          /\ files.given[other] # None
          /\ files._files[other] # None
          /\ files._files[other][1].name = "t.txt"
          /\ files._pending[other] = None
    /\ files._upload_stubs = <<>>
    /\ files.stubs_made = 1

\* The stored agents of a name.
AgentsNamed(name) ==
    {agent \in Range(DictValues(extract._agents)) : agent.name = name}

\* C26: get-agent-by-name answers with a stored agent of that name whenever
\* one is stored and with 404 otherwise, and the name index refers to
\* stored agents only.
C26_NameIndexFindsStoredAgents ==
    /\ \A pair \in Range(extract._agents_by_name) :
          DictGet(extract._agents, pair[2]) # None
    /\ (extract_call.op = "GET"
            /\ extract_call.handler = "_handle_get_agent_by_name") =>
          LET named == AgentsNamed(extract_call.path[3])
          IN  IF named = {} THEN extract_call.response.status_code = 404
              ELSE /\ extract_call.response.status_code = 200
                   /\ extract_call.response.body \in named

\* C29: GET extraction-agents/default is answered by the default handler:
\* the first stored agent, or an ephemeral agent when none is stored, never
\* the 404 of get-agent-by-id.
C29_ExactRouteIsTakenBeforeTemplate ==
    (extract_call.op = "GET"
        /\ extract_call.path = <<"extraction-agents", "default">>) =>
       /\ extract_call.handler = "_handle_get_default_agent"
       /\ extract_call.response = _handle_get_default_agent(extract, extract_call.path)
       /\ extract_call.response.status_code # 404

\* C25: a batch job request that answers with an error leaves the jobs
\* and the runs as they were; one that succeeds adds one job and one run
\* for each entry of file_ids, in that order.
C25_FailedBatchCreatesNothing ==
    [][extract_call'.op = "batch" =>
          IF extract_call'.response.status_code # 200
          THEN /\ extract'._jobs = extract._jobs
               /\ extract'._runs = extract._runs
          ELSE LET file_ids == extract_call'.file_ids
                   jobs == extract._jobs
               IN  /\ Len(extract'._jobs) = Len(jobs) + Len(file_ids)
                   /\ Len(extract'._runs) = Len(extract._runs) + Len(file_ids)
                   /\ SubSeq(extract'._jobs, 1, Len(jobs)) = jobs
                   /\ \A k \in 1..Len(file_ids) :
                         /\ extract'._jobs[Len(jobs) + k][2].job.file.id = file_ids[k]
                         /\ extract'._runs[Len(extract._runs) + k][2].job_id
                               = extract'._jobs[Len(jobs) + k][1]
    ]_vars

\* C27: the agent-data store never holds two items with the same id.
C27_StoredIdsAreUnique ==
    \A i, j \in 1..Len(stored) : stored[i].id = stored[j].id => i = j

\* C30: with SCHEMA None at the start, concurrent calls of
\* get_extraction_schema build the model once at most, every call returns
\* the one class built, and SCHEMA, once set, does not change.
C30_SchemaIsBuiltOnce ==
    /\ [](/\ built.builds <= 1
          /\ built.returned \subseteq {SCHEMA}
          /\ None \notin built.returned
          /\ SCHEMA = None <=> built.builds = 0)
    /\ [][SCHEMA # None => SCHEMA' = SCHEMA]_vars

\* One lookup failed, the class was built and returned by a later call,
\* and two callers that saw SCHEMA None before the build are at the lock:
\* one waits for it, the other holds it and is about to test SCHEMA again.
C30_Witness ==
    /\ built.calls = MaxCalls
    /\ built.failures = 1
    /\ built.builds = 1
    /\ built.returned = {Some(1)}
    /\ \E a, b \in Callers :
          /\ a # b
          /\ callers[a] = "acquire"
          /\ callers[b] = "check_again"
          /\ _schema_lock = Some(b)

====
